---- MODULE Spec2Model ----
(***************************************************************************)
(* Batch-Text-Insertor: the text fitting and painting of canvasUtils.ts,   *)
(* the batch generator with the App component that drives it, the          *)
(* rectangle authoring of ImageCanvas.tsx, the persisted state and the      *)
(* fonts of fontUtils.ts.                                                   *)
(*                                                                          *)
(* The specifications share the variables:                                  *)
(*   SpecFit     drawTextOnCanvas / calculateOptimalFontSize on a surface   *)
(*   SpecShadow  drawTextOnCanvas over textShadow strings                   *)
(*   SpecSearch  one drawTextOnCanvas call, the search loop step by step    *)
(*   Spec        App.handleGenerate, generateImages, image upload and clear *)
(*   SpecSettle  Spec with the awaited decode and encodings settling        *)
(*   SpecPersist the auto-save effects of App and handleStyleChange         *)
(*   SpecCanvas  ImageCanvas mouse handlers (draw, move, resize), delete    *)
(*   SpecFonts   registerCustomFont / unregisterCustomFont and the list     *)
(*   SpecGoogle  loadGoogleFont and loadAllGoogleFonts                      *)
(*   SpecScale   one rectangle drawn, stored and shown, in binary64 Numbers *)
(*   SpecNames   the handlers of NamesInput                                 *)
(*   SpecStyle   the font weight controls and format buttons of the panel   *)
(*                                                                          *)
(* Numbers.  Lengths are whole pixels, except in SpecScale.                 *)
(* style.lineHeight is kept in tenths (12 stands for 1.2), so               *)
(* mid * lineHeight <= maxHeight - padding  reads                           *)
(* mid * lineHeight <= (maxHeight - padding) * 10.  A string is a sequence  *)
(* of one-character strings; this is how a text, a name and a textShadow    *)
(* are held, while the other style fields are read whole and stay strings.  *)
(***************************************************************************)
EXTENDS Integers, Sequences, FiniteSets, TLC

VARIABLES
    \* ---- the drawing surface (CanvasRenderingContext2D) ----
    ctx,            \* the graphics state of the 2d context
    ctxStack,       \* the states pushed by ctx.save()
    metric,         \* which font metrics the host's measureText answers with
    call,           \* the arguments of the last drawTextOnCanvas call, or NoCall
    ctxBefore,      \* the graphics state when that call was entered
    optimalSize,    \* the size calculateOptimalFontSize returned in that call
    calls,          \* number of drawTextOnCanvas calls made on the surface
    painted,        \* the graphics state that call painted with, None before
    search,         \* calculateOptimalFontSize's locals while it runs step by step
    \* ---- App state (useState hooks of App) ----
    image,          \* UploadedImage | null
    textAreas,      \* TextArea[]
    names,          \* string[]
    generatedImages,\* GeneratedImage[]
    isProcessing,   \* boolean
    progress,       \* {current, total}
    \* ---- the generateImages call in flight ----
    batch,          \* the activation record of the last generateImages call
    outcome,        \* how that call ended, "running" while it is in flight
    shownBefore,    \* generatedImages when handleGenerate was last entered
    \* ---- ImageCanvas state (useState hooks of ImageCanvas) ----
    selectedAreaId, \* id of the selected area, NoId for null (held by App)
    scale,          \* the display scale is 1 / scale
    isDrawing,
    drawStart,
    currentRect,
    dragState,
    nextId,         \* number of ids generateId has handed out
    \* ---- localStorage ----
    storage,        \* the item under STORAGE_KEY
    lastWritten,    \* per field, the value of the last write that went through
    \* ---- custom fonts ----
    documentFonts,  \* document.fonts: the FontFace objects added to it
    customFonts,    \* CustomFont[] (useState hook of App)
    registrations,  \* the registerCustomFont calls made, each with its position
    alerts,         \* number of alert() boxes handleFontChange has shown
    removed,        \* the family names removed and not uploaded again since
    \* ---- Google fonts ----
    links,          \* per family, the state of its link[data-font] element
    loaders,        \* the loadGoogleFont calls made, each with its position
    fontsLoadingPromise, \* whether loadAllGoogleFonts has made its promise
    \* ---- the preview of one drawn rectangle, in Numbers ----
    preview,        \* the scale, the rectangle drawn, stored and shown
    \* ---- NamesInput state (useState hooks of NamesInput) ----
    inputValue,     \* the text of the text field
    bulkModalOpen,  \* boolean
    bulkInputValue, \* the text of the bulk dialog
    pastes          \* per clipboard read in flight, the names it will add to

fitVars    == <<ctx, ctxStack, metric, call, ctxBefore, optimalSize, calls,
                painted, search>>
appVars    == <<image, names, generatedImages, isProcessing, progress,
                batch, outcome, shownBefore>>
canvasVars == <<selectedAreaId, scale, isDrawing, drawStart, currentRect,
                dragState, nextId>>
persistVars == <<storage, lastWritten>>
fontVars    == <<documentFonts, customFonts, registrations, alerts, removed>>
googleVars  == <<links, loaders, fontsLoadingPromise>>
panelVars   == <<preview, inputValue, bulkModalOpen, bulkInputValue, pastes>>
sideVars    == <<persistVars, fontVars, googleVars, panelVars>>
vars       == <<fitVars, appVars, textAreas, canvasVars, sideVars>>

Null    == "null"    \* null where the value would be a string
None    == <<>>      \* null where the value would be an object
NoId    == 0         \* null where the value would be an area id
NoCall  == [text |-> <<>>, area |-> None, scaleX |-> 1, scaleY |-> 1]
NoSearch == [pc |-> "idle", low |-> 0, high |-> 0, optimalFontSize |-> 0]
NoBatch == [pc |-> "idle", img |-> Null, names |-> <<>>, areas |-> <<>>, i |-> 0,
            name |-> <<>>, results |-> <<>>, progress |-> <<>>, canvases |-> <<>>]

Max(a, b) == IF a >= b THEN a ELSE b
Min(a, b) == IF a <= b THEN a ELSE b

(***************************************************************************)
(* Bounds of the model.                                                     *)
(***************************************************************************)
MaxTextLen == 2     \* longest text handed to drawTextOnCanvas
MaxCalls   == 2     \* drawTextOnCanvas calls on one surface
MaxNames   == 2     \* longest names list
MaxAreas   == 2     \* most text areas in the list handed to a batch
MaxDrawn   == 1     \* most text areas drawn on the canvas
MaxIds     == 2     \* most ids generateId hands out
MaxSpan    == 40    \* largest width and height an area is grown to
MaxUploads == 3     \* most font files uploaded
MaxLoads   == 3     \* most loadGoogleFont calls

(***************************************************************************)
(* types/index.ts                                                           *)
(***************************************************************************)
DEFAULT_TEXT_STYLE ==
    [fontFamily     |-> "Arial",
     fontSize       |-> 24,
     fontWeight     |-> "normal",
     fontStyle      |-> "normal",
     color          |-> "#000000",
     textDecoration |-> "none",
     textTransform  |-> "none",
     letterSpacing  |-> 0,
     lineHeight     |-> 12,
     textShadow     |-> <<"n", "o", "n", "e">>,
     opacity        |-> 10]


\* Body at v, with v worked out once however often Body uses it
With(v, Body(_)) == CHOOSE r \in {Body(x) : x \in {v}} : TRUE

(***************************************************************************)
(* Strings of the model: sequences of characters over a small alphabet.     *)
(***************************************************************************)
Alphabet == {"a", "B", "-"}

RECURSIVE SeqsUpTo(_, _)
SeqsUpTo(S, n) ==
    IF n = 0 THEN {<<>>}
    ELSE LET shorter == SeqsUpTo(S, n - 1)
         IN  shorter \cup {Append(t, c) : t \in {u \in shorter : Len(u) = n - 1}, c \in S}

Texts == SeqsUpTo(Alphabet, MaxTextLen)

\* String.prototype.toUpperCase / toLowerCase, character by character
UpperChar(c) == CASE c = "a" -> "A" [] c = "b" -> "B" [] OTHER -> c
LowerChar(c) == CASE c = "A" -> "a" [] c = "B" -> "b" [] OTHER -> c
ToUpperCase(t) == [i \in 1..Len(t) |-> UpperChar(t[i])]
ToLowerCase(t) == [i \in 1..Len(t) |-> LowerChar(t[i])]

\* the regular expression class \w
IsWordChar(c) == c \in {"a", "b", "A", "B"}

\* a capitalize that upper-cases the first character of the string only
CapitalizeFirstOnly(t) ==
    [i \in 1..Len(t) |-> IF i = 1 THEN UpperChar(t[i]) ELSE t[i]]

\* text.replace(/\b\w/g, c => c.toUpperCase()): a word character is at a
\* word boundary when it is first or follows a non-word character
Capitalize(t) ==
    [i \in 1..Len(t) |->
        IF IsWordChar(t[i]) /\ (i = 1 \/ ~IsWordChar(t[i - 1]))
        THEN UpperChar(t[i]) ELSE t[i]]

\* canvasUtils.ts 21-33
ApplyTextTransform(text, style) ==
    CASE style.textTransform = "uppercase"  -> ToUpperCase(text)
      [] style.textTransform = "lowercase"  -> ToLowerCase(text)
      [] style.textTransform = "capitalize" -> Capitalize(text)
      [] OTHER                              -> text

(***************************************************************************)
(* The host's text measurement.  ctx.measureText(t).width depends on the    *)
(* text and on the font currently set on the context; the code assumes      *)
(* nothing else about it.  Widths are in tenths of a pixel.  Two metrics:   *)
(*   linear   every glyph advances by a fixed fraction of the font size     *)
(*   optical  a face that switches to a narrower design from OpticalSize    *)
(*            on (optical sizing, embedded strikes): the width is not        *)
(*            monotone in the size                                           *)
(*   kerned   a face with kerning pairs: a string is narrower than its       *)
(*            characters measured one by one                                 *)
(***************************************************************************)
Metrics == {"linear", "optical", "kerned"}

OpticalSize == 8

\* advance of a glyph in tenths of the em
Advance(c) == CASE c \in {"a", "b"} -> 5 [] c \in {"A", "B"} -> 7 [] OTHER -> 3

RECURSIVE SumAdvance(_)
SumAdvance(t) == IF t = <<>> THEN 0 ELSE Advance(Head(t)) + SumAdvance(Tail(t))

\* what the kerning pairs of a text take off its advance, in tenths of the em
KernPairs == {<<"B", "a">>, <<"B", "-">>}
RECURSIVE SumKerning(_)
SumKerning(t) ==
    IF Len(t) < 2 THEN 0
    ELSE (IF <<t[1], t[2]>> \in KernPairs THEN 1 ELSE 0) + SumKerning(Tail(t))

GlyphRun(m, t, size) ==
    CASE m = "optical" /\ size >= OpticalSize -> (SumAdvance(t) * size * 6) \div 10
      [] m = "kerned"                          -> (SumAdvance(t) - SumKerning(t)) * size
      [] OTHER                                 -> SumAdvance(t) * size

\* ctx.measureText(text).width on context c
MeasureText(c, t) == GlyphRun(metric, t, c.font.size)

(***************************************************************************)
(* The graphics state of a 2d context.  globalAlpha is in tenths, lineWidth *)
(* in fifteenths of a pixel (so Math.max(1, fontSize / 15) is exact).       *)
(***************************************************************************)
DefaultCtx ==
    [globalAlpha   |-> 10,
     font          |-> [fontStyle |-> "normal", fontWeight |-> "normal",
                        size |-> 10, fontFamily |-> "sans-serif"],
     fillStyle     |-> "#000000",
     strokeStyle   |-> "#000000",
     lineWidth     |-> 15,
     textAlign     |-> "start",
     textBaseline  |-> "alphabetic",
     shadowOffsetX |-> 0,
     shadowOffsetY |-> 0,
     shadowBlur    |-> 0,
     shadowColor   |-> "rgba(0, 0, 0, 0)"]

\* canvasUtils.ts 124-126; assigning the string to ctx.font sets these parts
BuildFontString(style, fontSize) ==
    [fontStyle |-> style.fontStyle, fontWeight |-> style.fontWeight,
     size |-> fontSize, fontFamily |-> style.fontFamily]

(***************************************************************************)
(* calculateOptimalFontSize, canvasUtils.ts 87-119.                         *)
(***************************************************************************)
minFontSize == 4
padding     == 4

\* a fit test that forgets the padding
FitsNoPadding(c, text, maxWidth, maxHeight, style) ==
    /\ MeasureText(c, text) + style.letterSpacing * 10 * (Len(text) - 1) <= maxWidth * 10
    /\ c.font.size * style.lineHeight <= maxHeight * 10

\* lines 106-110: the fit test for the font set on c
Fits(c, text, maxWidth, maxHeight, style) ==
    LET textWidth  == MeasureText(c, text) + style.letterSpacing * 10 * (Len(text) - 1)
        textHeight == c.font.size * style.lineHeight
    IN  /\ textWidth <= (maxWidth - padding) * 10
        /\ textHeight <= (maxHeight - padding) * 10

\* a search that settles for the first size found to fit
RECURSIVE SearchLoopFirstFit(_, _, _, _, _)
SearchLoopFirstFit(s, text, maxWidth, maxHeight, style) ==
    IF s.low > s.high THEN s
    ELSE LET mid == (s.low + s.high) \div 2
             c   == [s.ctx EXCEPT !.font = BuildFontString(style, mid)]
         IN  IF Fits(c, text, maxWidth, maxHeight, style)
             THEN [low |-> mid + 1, high |-> s.high, optimalFontSize |-> mid, ctx |-> c]
             ELSE SearchLoopFirstFit([low |-> s.low, high |-> mid - 1,
                                      optimalFontSize |-> s.optimalFontSize, ctx |-> c],
                                     text, maxWidth, maxHeight, style)

\* the while loop of lines 103-116; s holds low, high, optimalFontSize and ctx
RECURSIVE SearchLoop(_, _, _, _, _)
SearchLoop(s, text, maxWidth, maxHeight, style) ==
    IF s.low > s.high THEN s
    ELSE LET mid == (s.low + s.high) \div 2
             c   == [s.ctx EXCEPT !.font = BuildFontString(style, mid)]
         IN  IF Fits(c, text, maxWidth, maxHeight, style)
             THEN SearchLoop([low |-> mid + 1, high |-> s.high,
                              optimalFontSize |-> mid, ctx |-> c],
                             text, maxWidth, maxHeight, style)
             ELSE SearchLoop([low |-> s.low, high |-> mid - 1,
                              optimalFontSize |-> s.optimalFontSize, ctx |-> c],
                             text, maxWidth, maxHeight, style)

\* a search whose upper bound is the rectangle's height alone
CalculateUpToHeight(c, text, maxWidth, maxHeight, style) ==
    LET s == SearchLoop([low |-> minFontSize, high |-> maxHeight,
                         optimalFontSize |-> minFontSize, ctx |-> c],
                        text, maxWidth, maxHeight, style)
    IN  [size |-> Max(s.optimalFontSize, minFontSize), ctx |-> s.ctx]

\* the result: [size |-> the returned size, ctx |-> the context afterwards]
CalculateOptimalFontSize(c, text, maxWidth, maxHeight, style) ==
    LET s == SearchLoop([low |-> minFontSize, high |-> Max(maxHeight, maxWidth),
                         optimalFontSize |-> minFontSize, ctx |-> c],
                        text, maxWidth, maxHeight, style)
    IN  [size |-> Max(s.optimalFontSize, minFontSize), ctx |-> s.ctx]


(***************************************************************************)
(* drawTextOnCanvas, canvasUtils.ts 6-82.                                   *)
(***************************************************************************)
\* the regular expression classes \d and \s
Digits == <<"0", "1", "2", "3", "4", "5", "6", "7", "8", "9">>
IsDigit(c) == \E k \in 1..Len(Digits) : Digits[k] = c
DigitValue(c) == (CHOOSE k \in 1..Len(Digits) : Digits[k] = c) - 1
IsWhite(c) == c = " "

\* a greedy \d+ or \s+ from position i: the position after the run
RECURSIVE DigitsEnd(_, _)
DigitsEnd(t, i) == IF i <= Len(t) /\ IsDigit(t[i]) THEN DigitsEnd(t, i + 1) ELSE i
RECURSIVE WhiteEnd(_, _)
WhiteEnd(t, i) == IF i <= Len(t) /\ IsWhite(t[i]) THEN WhiteEnd(t, i + 1) ELSE i

\* a length of the expression whose sign and digits run from i to before
\* `to` and whose px and white space run to before `next`: whether it
\* matches, the group, and the position after it
LengthGroup(t, i, from, to, next) ==
    IF /\ i <= Len(t)
       /\ to > from
       /\ to + 1 <= Len(t) /\ t[to] = "p" /\ t[to + 1] = "x"
       /\ next > to + 2
    THEN [ok |-> TRUE, group |-> SubSeq(t, i, to - 1), next |-> next]
    ELSE [ok |-> FALSE, group |-> <<>>, next |-> i]

\* \d+px\s+ with the digits starting at from
DigitsAndUnit(t, i, from, to) == LengthGroup(t, i, from, to, WhiteEnd(t, to + 2))

\* (-?\d+)px\s+ at position i, or (\d+)px\s+ when not signed
MatchLength(t, i, signed) ==
    IF signed /\ i <= Len(t) /\ t[i] = "-"
    THEN DigitsAndUnit(t, i, i + 1, DigitsEnd(t, i + 1))
    ELSE DigitsAndUnit(t, i, i, DigitsEnd(t, i))

\* the three lengths matched, then (.*) takes the rest of the string
MatchGroups(t, g1, g2, g3) ==
    IF g1.ok /\ g2.ok /\ g3.ok
    THEN <<g1.group, g2.group, g3.group, SubSeq(t, g3.next, Len(t))>>
    ELSE None

\* the whole expression tried at position i: the four groups, or None
MatchAt(t, i) ==
    With(MatchLength(t, i, TRUE), LAMBDA g1 :
        With(MatchLength(t, g1.next, TRUE), LAMBDA g2 :
            With(MatchLength(t, g2.next, FALSE), LAMBDA g3 :
                MatchGroups(t, g1, g2, g3))))

\* the expression tried at position i, then at the positions after it
RECURSIVE MatchFrom(_, _)
MatchFrom(t, i) ==
    IF i > Len(t) THEN None
    ELSE With(MatchAt(t, i), LAMBDA found :
             IF found # None THEN found ELSE MatchFrom(t, i + 1))

\* style.textShadow.match(/(-?\d+)px\s+(-?\d+)px\s+(\d+)px\s+(.*)/), lines
\* 54-56: the expression is not anchored, so the match is the one at the
\* leftmost position that has one
ShadowMatch(textShadow) == MatchFrom(textShadow, 1)

\* parseInt of a matched group
RECURSIVE ParseDigits(_)
ParseDigits(t) ==
    IF t = <<>> THEN 0
    ELSE ParseDigits(SubSeq(t, 1, Len(t) - 1)) * 10 + DigitValue(t[Len(t)])
ParseInt(t) == IF Head(t) = "-" THEN 0 - ParseDigits(Tail(t)) ELSE ParseDigits(t)

\* ctx.shadowColor = v (line 61): the context takes a colour it can parse and
\* ignores anything else
SetShadowColor(c, v) ==
    CASE v = <<"r", "e", "d">>      -> [c EXCEPT !.shadowColor = "red"]
      [] v = <<"#", "0", "0", "0">> -> [c EXCEPT !.shadowColor = "#000"]
      [] OTHER                      -> c

\* lines 57-62
SetShadow(c, shadowMatch) ==
    IF shadowMatch # None
    THEN SetShadowColor([c EXCEPT !.shadowOffsetX = ParseInt(shadowMatch[1]),
                                  !.shadowOffsetY = ParseInt(shadowMatch[2]),
                                  !.shadowBlur = ParseInt(shadowMatch[3])], shadowMatch[4])
    ELSE c

\* lines 52-63
ApplyShadow(c, style) ==
    IF style.textShadow # <<>> /\ style.textShadow # <<"n", "o", "n", "e">>
    THEN With(ShadowMatch(style.textShadow), LAMBDA shadowMatch : SetShadow(c, shadowMatch))
    ELSE c

\* drawTextDecoration, lines 160-195: what it leaves on the graphics state
DrawTextDecoration(c, fontSize, style) ==
    [c EXCEPT !.strokeStyle = style.color, !.lineWidth = Max(15, fontSize)]

\* area.width * scaleX, where the factor is 1 / scaleX
Scaled(v, scaleDen) == v \div scaleDen

\* drawTextWithLetterSpacing, lines 131-155: the fillText calls it makes, each
\* with its character and its x.  Positions along x are in twentieths of a
\* pixel, so that half a width in tenths is a whole number
RECURSIVE SumCharWidths(_, _)
SumCharWidths(c, text) ==
    IF text = <<>> THEN 0
    ELSE MeasureText(c, <<Head(text)>>) + SumCharWidths(c, Tail(text))

RECURSIVE FillCharacters(_, _, _, _)
FillCharacters(c, characters, currentX, letterSpacing) ==
    IF characters = <<>> THEN <<>>
    ELSE LET charWidth == MeasureText(c, <<Head(characters)>>)
         IN  <<[text |-> <<Head(characters)>>, x |-> currentX + charWidth]>>
             \o FillCharacters(c, Tail(characters),
                               currentX + 2 * charWidth + 20 * letterSpacing, letterSpacing)

\* a layout that keeps the spacing after the last character in totalWidth
DrawTextWithTrailingSpacing(c, text, x, letterSpacing) ==
    FillCharacters(c, text, x - (SumCharWidths(c, text) + 10 * letterSpacing * Len(text)),
                   letterSpacing)

DrawTextWithLetterSpacing(c, text, x, letterSpacing) ==
    LET \* lines 139-145, in tenths of a pixel
        totalWidth == SumCharWidths(c, text) + 10 * letterSpacing * Len(text)
                      - 10 * letterSpacing
    IN  \* lines 148-154
        FillCharacters(c, text, x - totalWidth, letterSpacing)

\* lines 45-81: from ctx.save() to ctx.restore(), on the context c the search
\* left and with the size it returned, in the scaled rectangle that starts at
\* scaledX and is scaledWidth wide
\* lines 65-81, on the graphics state `shadowed` that lines 46-63 set up
\* and with the stack of states `saved` as ctx.save() left it
FillAndRestore(shadowed, saved, displayText, style, optimalFontSize, centerX) ==
    [\* line 81: ctx.restore() pops the state pushed at line 45
     ctx   |-> saved[Len(saved)],
     stack |-> SubSeq(saved, 1, Len(saved) - 1),
     size  |-> optimalFontSize,
     displayText |-> displayText,
     painting |->
        [\* lines 77-79
         state |-> IF style.textDecoration # "none"
                   THEN DrawTextDecoration(shadowed, optimalFontSize, style)
                   ELSE shadowed,
         \* lines 70-74
         fills |-> IF style.letterSpacing # 0
                   THEN DrawTextWithLetterSpacing(shadowed, displayText, centerX,
                                                  style.letterSpacing)
                   ELSE <<[text |-> displayText, x |-> centerX]>>,
         centerX |-> centerX]]

\* lines 46-63: the graphics state the text is filled with
SetTextProperties(c, style, optimalFontSize) ==
    ApplyShadow([c EXCEPT !.globalAlpha = style.opacity,
                          !.font = BuildFontString(style, optimalFontSize),
                          !.fillStyle = style.color,
                          !.textAlign = "center",
                          !.textBaseline = "middle"], style)

PaintText(c, stack, displayText, style, optimalFontSize, scaledX, scaledWidth) ==
    With(SetTextProperties(c, style, optimalFontSize), LAMBDA shadowed :
        FillAndRestore(shadowed,
                       \* line 45
                       Append(stack, c),
                       displayText, style, optimalFontSize,
                       \* line 66, in twentieths of a pixel
                       20 * scaledX + 10 * scaledWidth))

\* the graphics state and the stack of saved states after the call, and the
\* font size it chose
DrawTextOnCanvas(c, stack, text, area, scaleX, scaleY) ==
    LET style        == area.style
        scaledWidth  == Scaled(area.width, scaleX)
        scaledHeight == Scaled(area.height, scaleY)
        displayText  == ApplyTextTransform(text, style)
        \* lines 36-42: the search runs on ctx before ctx.save()
        found        == CalculateOptimalFontSize(c, displayText, scaledWidth, scaledHeight, style)
    IN  PaintText(found.ctx, stack, displayText, style, found.size,
                  Scaled(area.x, scaleX), scaledWidth)

(***************************************************************************)
(* SpecFit: drawTextOnCanvas called on one surface with every text, area    *)
(* and style of the model.                                                  *)
(***************************************************************************)
FitDims   == {20, 60, 90, 120, 160}
FitScales == {1, 10}

FitStyles ==
    {DEFAULT_TEXT_STYLE,
     [DEFAULT_TEXT_STYLE EXCEPT !.letterSpacing = 2, !.textDecoration = "underline",
                                !.textShadow = <<"2", "p", "x", " ", "2", "p", "x", " ", "4", "p", "x",
                                                 " ", "#", "0", "0", "0">>, !.opacity = 5,
                                !.fontStyle = "italic", !.fontWeight = "bold",
                                !.fontFamily = "Georgia", !.color = "#ff0000"],
     [DEFAULT_TEXT_STYLE EXCEPT !.letterSpacing = -1, !.lineHeight = 10,
                                !.textTransform = "uppercase", !.textShadow = <<"i", "n", "v", "a", "l", "i", "d">>],
     [DEFAULT_TEXT_STYLE EXCEPT !.lineHeight = 5, !.textTransform = "capitalize",
                                !.textDecoration = "line-through"]}

FitAreas ==
    {[id |-> "a", x |-> 0, y |-> 0, width |-> w, height |-> h, style |-> st] :
        w \in FitDims, h \in FitDims, st \in FitStyles}

InitApp ==
    /\ image = Null
    /\ textAreas = <<>>
    /\ names = <<>>
    /\ generatedImages = <<>>
    /\ isProcessing = FALSE
    /\ progress = [current |-> 0, total |-> 0]
    /\ batch = NoBatch
    /\ outcome = "none"
    /\ shownBefore = <<>>

NoDrag ==
    [isDragging |-> FALSE, isResizing |-> FALSE, startX |-> 0, startY |-> 0,
     areaStartX |-> 0, areaStartY |-> 0, areaStartWidth |-> 0, areaStartHeight |-> 0,
     resizeHandle |-> Null]

InitCanvas ==
    /\ selectedAreaId = NoId
    /\ scale = 1
    /\ isDrawing = FALSE
    /\ drawStart = None
    /\ currentRect = None
    /\ dragState = NoDrag
    /\ nextId = 0

\* the families loadGoogleFont is called with
GoogleFamilies == {"Roboto", "Lato"}

\* no write of a field has gone through
NotWritten == [written |-> FALSE, value |-> None]

\* nothing stored
NoPreview == [pc |-> "idle"]

InitStorage ==
    /\ storage = [kind |-> "absent", value |-> None]
    /\ lastWritten = [names |-> NotWritten, lastTextStyle |-> NotWritten]

\* no custom font, no Google font asked for
InitRegistry ==
    /\ documentFonts = {}
    /\ customFonts = <<>>
    /\ registrations = <<>>
    /\ alerts = 0
    /\ removed = {}
    /\ links = [family \in GoogleFamilies |-> "none"]
    /\ loaders = <<>>
    /\ fontsLoadingPromise = FALSE

\* no rectangle drawn in the Number-valued preview, NamesInput as mounted
\* (NamesInput.tsx 25-27)
InitPanel ==
    /\ preview = NoPreview
    /\ inputValue = <<>>
    /\ bulkModalOpen = FALSE
    /\ bulkInputValue = <<>>
    /\ pastes = <<>>

InitSide ==
    /\ InitStorage
    /\ InitRegistry
    /\ InitPanel

InitSurface ==
    /\ ctx = DefaultCtx
    /\ ctxStack = <<>>
    /\ metric = "linear"
    /\ call = NoCall
    /\ ctxBefore = DefaultCtx
    /\ optimalSize = 0
    /\ calls = 0
    /\ painted = None
    /\ search = NoSearch

\* the arguments are drawn here; every call of a behaviour is made with them
InitFit ==
    /\ ctx = DefaultCtx
    /\ ctxStack = <<>>
    /\ metric \in Metrics
    /\ call \in [text : Texts, area : FitAreas, scaleX : FitScales, scaleY : FitScales]
    /\ call.scaleX = call.scaleY
    /\ ctxBefore = DefaultCtx
    /\ optimalSize = 0
    /\ calls = 0
    /\ painted = None
    /\ search = NoSearch
    /\ InitApp
    /\ InitCanvas
    /\ InitSide

\* one call of drawTextOnCanvas(ctx, text, area, scaleX, scaleY)
CallDrawTextOnCanvas ==
    /\ calls < MaxCalls
    /\ \E r \in {DrawTextOnCanvas(ctx, ctxStack, call.text, call.area,
                                   call.scaleX, call.scaleY)} :
           /\ ctxBefore' = ctx
           /\ ctx' = r.ctx
           /\ ctxStack' = r.stack
           /\ optimalSize' = r.size
           /\ painted' = r.painting
    /\ calls' = calls + 1
    /\ UNCHANGED <<metric, call, search, appVars, textAreas, canvasVars>>
    /\ UNCHANGED sideVars

NextFit == CallDrawTextOnCanvas

SpecFit == InitFit /\ [][NextFit]_vars

(***************************************************************************)
(* SpecShadow: drawTextOnCanvas called with the textShadow strings a user   *)
(* can type into the free-text field of TextStylePanel (lines 267-275):     *)
(* three lengths, a gap after each, and a colour, every part well or badly  *)
(* formed, after an optional prefix.                                        *)
(***************************************************************************)
ShadowPrefixes == {<<>>, <<"1", ".">>, <<"x">>}
ShadowNumbers  == {<<"2">>, <<"-", "1">>, <<"1", "0">>, <<>>}
ShadowUnits    == {<<"p", "x">>, <<"e", "m">>}
ShadowGaps     == {<<" ">>, <<>>}
ShadowColours  == {<<"r", "e", "d">>, <<>>}

ShadowLengths == {n \o u \o g : n \in ShadowNumbers, u \in ShadowUnits, g \in ShadowGaps}

ShadowStrings ==
    {p \o l1 \o l2 \o l3 \o c :
        p \in ShadowPrefixes, l1 \in ShadowLengths, l2 \in ShadowLengths,
        l3 \in ShadowLengths, c \in ShadowColours}
    \cup {<<"n", "o", "n", "e">>, <<"i", "n", "v", "a", "l", "i", "d">>}

InitShadow ==
    /\ ctx = DefaultCtx
    /\ ctxStack = <<>>
    /\ metric = "linear"
    /\ \E sh \in ShadowStrings :
          call = [text |-> <<"a">>,
                  area |-> [id |-> "a", x |-> 0, y |-> 0, width |-> 120, height |-> 60,
                            style |-> [DEFAULT_TEXT_STYLE EXCEPT !.textShadow = sh]],
                  scaleX |-> 1, scaleY |-> 1]
    /\ ctxBefore = DefaultCtx
    /\ optimalSize = 0
    /\ calls = 0
    /\ painted = None
    /\ search = NoSearch
    /\ InitApp
    /\ InitCanvas
    /\ InitSide

SpecShadow == InitShadow /\ [][NextFit]_vars

(***************************************************************************)
(* SpecSearch: one drawTextOnCanvas call followed statement by statement    *)
(* through the while loop of calculateOptimalFontSize.                      *)
(***************************************************************************)
\* lines 13-42 and 99-101: up to the first test of the loop condition
DrawTextEnter ==
    /\ search.pc = "idle"
    /\ calls < 1
    /\ search' = [pc |-> "loop",
                  low |-> minFontSize,
                  high |-> Max(Scaled(call.area.height, call.scaleY),
                               Scaled(call.area.width, call.scaleX)),
                  optimalFontSize |-> minFontSize]
    /\ ctxBefore' = ctx
    /\ UNCHANGED <<ctx, ctxStack, metric, call, optimalSize, calls, painted,
                   appVars, textAreas, canvasVars>>
    /\ UNCHANGED sideVars

\* an iteration that leaves low at mid when the size fits
SearchIterationLowAtMid ==
    /\ search.pc = "loop"
    /\ search.low <= search.high
    /\ LET style == call.area.style
           mid   == (search.low + search.high) \div 2
           c     == [ctx EXCEPT !.font = BuildFontString(style, mid)]
       IN  /\ ctx' = c
           /\ search' = IF Fits(c, ApplyTextTransform(call.text, style),
                                Scaled(call.area.width, call.scaleX),
                                Scaled(call.area.height, call.scaleY), style)
                         THEN [search EXCEPT !.optimalFontSize = mid, !.low = mid]
                         ELSE [search EXCEPT !.high = mid - 1]
    /\ UNCHANGED <<ctxStack, metric, call, ctxBefore, optimalSize, calls, painted,
                   appVars, textAreas, canvasVars>>
    /\ UNCHANGED sideVars

\* lines 103-116: one iteration of the loop
SearchIteration ==
    /\ search.pc = "loop"
    /\ search.low <= search.high
    /\ LET style == call.area.style
           mid   == (search.low + search.high) \div 2
           c     == [ctx EXCEPT !.font = BuildFontString(style, mid)]
       IN  /\ ctx' = c
           /\ search' = IF Fits(c, ApplyTextTransform(call.text, style),
                                Scaled(call.area.width, call.scaleX),
                                Scaled(call.area.height, call.scaleY), style)
                         THEN [search EXCEPT !.optimalFontSize = mid, !.low = mid + 1]
                         ELSE [search EXCEPT !.high = mid - 1]
    /\ UNCHANGED <<ctxStack, metric, call, ctxBefore, optimalSize, calls, painted,
                   appVars, textAreas, canvasVars>>
    /\ UNCHANGED sideVars

\* the loop condition fails: line 118, then lines 45-82
DrawTextFinish ==
    /\ search.pc = "loop"
    /\ search.low > search.high
    /\ \E r \in {PaintText(ctx, ctxStack,
                            ApplyTextTransform(call.text, call.area.style), call.area.style,
                            Max(search.optimalFontSize, minFontSize),
                            Scaled(call.area.x, call.scaleX),
                            Scaled(call.area.width, call.scaleX))} :
           /\ ctx' = r.ctx
           /\ ctxStack' = r.stack
           /\ optimalSize' = r.size
           /\ painted' = r.painting
    /\ search' = [search EXCEPT !.pc = "done"]
    /\ calls' = calls + 1
    /\ UNCHANGED <<metric, call, ctxBefore, appVars, textAreas, canvasVars>>
    /\ UNCHANGED sideVars

NextSearch ==
    \/ DrawTextEnter
    \/ SearchIteration
    \/ DrawTextFinish

\* the call runs synchronously to its end: no step of it is postponed for ever
SpecSearch == InitFit /\ [][NextSearch]_vars /\ WF_vars(NextSearch)


(***************************************************************************)
(* generateImages, canvasUtils.ts 200-245, driven by App (unnamed/part_002).*)
(* The function suspends at  await loadImage  and at every  await           *)
(* canvasToBlob ; what runs between two suspensions is one step.            *)
(***************************************************************************)
\* the white space of the model's characters
IsSpace(c) == c \in {" ", "\t", "\n", "\r"}

RECURSIVE TrimStart(_)
TrimStart(t) == IF t # <<>> /\ IsSpace(Head(t)) THEN TrimStart(Tail(t)) ELSE t

RECURSIVE TrimEnd(_)
TrimEnd(t) ==
    IF t # <<>> /\ IsSpace(t[Len(t)]) THEN TrimEnd(SubSeq(t, 1, Len(t) - 1)) ELSE t

\* String.prototype.trim
Trim(t) == TrimEnd(TrimStart(t))

\* the names a batch can be given: empty, blank, padded, plain
NamePool == {<<>>, <<" ">>, <<" ", "A", " ">>, <<"B">>}
NameLists == UNION {[1..n -> NamePool] : n \in 0..MaxNames}

\* what NamesInput hands to onNamesChange is trimmed and non-empty
TypedNames == {n \in NamePool : n # <<>> /\ Trim(n) = n}

Images == {"img1", "img2"}

\* the text area lists ImageCanvas hands to onTextAreasChange
AppAreas == [k \in 1..MaxAreas |->
                [id |-> k, x |-> 0, y |-> 0, width |-> 100, height |-> 40,
                 style |-> DEFAULT_TEXT_STYLE]]
AreaLists == {SubSeq(AppAreas, 1, n) : n \in 0..MaxAreas}

\* textAreas.forEach in the opposite order
DrawTextAreasLastFirst(name, areas) ==
    [k \in 1..Len(areas) |->
        [op |-> "drawTextOnCanvas", text |-> name, area |-> areas[Len(areas) + 1 - k],
         scaleX |-> 1, scaleY |-> 1]]

\* lines 229-231: the drawTextOnCanvas calls of one name, in the order made;
\* the call passes no scale, so scaleX and scaleY take their default of 1
DrawTextAreas(name, areas) ==
    [k \in 1..Len(areas) |->
        [op |-> "drawTextOnCanvas", text |-> name, area |-> areas[k],
         scaleX |-> 1, scaleY |-> 1]]

\* lines 218-231: the canvas created for the name at index i and what is
\* drawn on it; a canvas that gives no 2d context is left as created
NewCanvas(b, name, hasCtx) ==
    [i     |-> b.i,
     name  |-> name,
     ops   |-> IF hasCtx
               THEN <<[op |-> "drawImage", img |-> b.img]>> \o DrawTextAreas(name, b.areas)
               ELSE <<>>,
     state |-> IF hasCtx THEN "toBlob" ELSE "noContext"]

\* the for loop of lines 213-242 from index b.i up to the next
\* await canvasToBlob (pc "canvasToBlob") or to the return of line 244
\* (pc "return"); noCtx holds the indexes at which getContext('2d') gives null
RECURSIVE RunLoop(_, _)
RunLoop(b, noCtx) ==
    IF b.i >= Len(b.names) THEN [b EXCEPT !.pc = "return"]
    ELSE LET name == Trim(b.names[b.i + 1])
         IN  IF name = <<>> THEN RunLoop([b EXCEPT !.i = b.i + 1], noCtx)            \* line 215
             ELSE IF b.i \in noCtx                                                   \* line 223
             THEN RunLoop([b EXCEPT !.i = b.i + 1,
                                    !.canvases = Append(b.canvases,
                                                        NewCanvas(b, name, FALSE))], noCtx)
             ELSE [b EXCEPT !.pc = "canvasToBlob", !.name = name,                    \* line 234
                            !.canvases = Append(b.canvases, NewCanvas(b, name, TRUE))]

\* the canvas awaited at line 234 has been encoded, or has failed to be
Settled(canvases, state) ==
    [k \in 1..Len(canvases) |->
        IF canvases[k].state = "toBlob" THEN [canvases[k] EXCEPT !.state = state]
        ELSE canvases[k]]

\* a loop that goes on to the next name while the blob is still awaited
PushResultBlobPending(b) ==
    [b EXCEPT !.results  = Append(b.results, [name |-> b.name, img |-> b.img]),
              !.progress = Append(b.progress, <<b.i + 1, Len(b.names)>>),
              !.i        = b.i + 1]

\* lines 234-241, after the blob of the name at b.i has arrived
PushResult(b) ==
    [b EXCEPT !.results  = Append(b.results, [name |-> b.name, img |-> b.img]),
              !.progress = Append(b.progress, <<b.i + 1, Len(b.names)>>),
              !.i        = b.i + 1,
              !.canvases = Settled(b.canvases, "encoded")]

\* handleGenerate without the reset of line 120
HandleGenerateKeepsShown ==
    /\ image # Null /\ names # <<>> /\ textAreas # <<>>
    /\ ~isProcessing
    /\ isProcessing' = TRUE
    /\ progress' = [current |-> 0, total |-> Len(names)]
    /\ generatedImages' = generatedImages
    /\ shownBefore' = generatedImages
    /\ batch' = [pc |-> "loadImage", img |-> image, names |-> names, areas |-> textAreas,
                 i |-> 0, name |-> <<>>, results |-> <<>>, progress |-> <<>>,
                 canvases |-> <<>>]
    /\ outcome' = "running"
    /\ UNCHANGED <<image, names, textAreas, fitVars, canvasVars>>
    /\ UNCHANGED sideVars

\* handleGenerate, part_002 115-123, up to the await; the button that calls
\* it is disabled while isProcessing (line 229)
HandleGenerate ==
    /\ image # Null /\ names # <<>> /\ textAreas # <<>>
    /\ ~isProcessing
    /\ isProcessing' = TRUE
    /\ progress' = [current |-> 0, total |-> Len(names)]
    /\ generatedImages' = <<>>
    /\ shownBefore' = generatedImages
    /\ batch' = [pc |-> "loadImage", img |-> image, names |-> names, areas |-> textAreas,
                 i |-> 0, name |-> <<>>, results |-> <<>>, progress |-> <<>>,
                 canvases |-> <<>>]
    /\ outcome' = "running"
    /\ UNCHANGED <<image, names, textAreas, fitVars, canvasVars>>
    /\ UNCHANGED sideVars

\* generateImages is in state b after a step: suspended at the next await,
\* or returned, and then handleGenerate runs lines 131 and 136.  The last
\* onProgress call of the step (line 129) is the progress React shows
Continue(b) ==
    /\ progress' = IF b.progress # batch.progress
                   THEN [current |-> b.progress[Len(b.progress)][1],
                         total   |-> b.progress[Len(b.progress)][2]]
                   ELSE progress
    /\ IF b.pc = "return"
       THEN /\ batch' = [b EXCEPT !.pc = "idle"]
            /\ outcome' = "returned"
            /\ generatedImages' = b.results
            /\ isProcessing' = FALSE
       ELSE /\ batch' = b
            /\ UNCHANGED <<outcome, generatedImages, isProcessing>>

\* a catch with no finally after it
ThrowNoFinally(why) ==
    /\ batch' = [batch EXCEPT !.pc = "idle", !.canvases = Settled(batch.canvases, "rejected")]
    /\ outcome' = why
    /\ UNCHANGED <<generatedImages, progress, isProcessing>>

\* generateImages rejects: handleGenerate runs its catch and finally
\* (part_002 132-137); the results collected so far are dropped with the call
Throw(why) ==
    /\ batch' = [batch EXCEPT !.pc = "idle", !.canvases = Settled(batch.canvases, "rejected")]
    /\ outcome' = why
    /\ isProcessing' = FALSE
    /\ UNCHANGED <<generatedImages, progress>>

\* await loadImage(imageDataUrl) settles (lines 211, 250-257)
LoadImageSettles ==
    /\ batch.pc = "loadImage"
    /\ \/ \E noCtx \in SUBSET (0..(Len(batch.names) - 1)) : Continue(RunLoop(batch, noCtx))
       \/ Throw("loadImageFailed")
    /\ UNCHANGED <<image, names, textAreas, shownBefore, fitVars, canvasVars>>
    /\ UNCHANGED sideVars

\* await canvasToBlob(canvas) settles (lines 234, 262-272)
CanvasToBlobSettles ==
    /\ batch.pc = "canvasToBlob"
    /\ \/ \E noCtx \in SUBSET (0..(Len(batch.names) - 1)) :
              Continue(RunLoop(PushResult(batch), noCtx))
       \/ Throw("encodingFailed")
    /\ UNCHANGED <<image, names, textAreas, shownBefore, fitVars, canvasVars>>
    /\ UNCHANGED sideVars

\* part_002 76-81
HandleImageUpload ==
    /\ \E uploadedImage \in Images : image' = uploadedImage
    /\ textAreas' = <<>>
    /\ selectedAreaId' = NoId
    /\ generatedImages' = <<>>
    /\ UNCHANGED <<names, isProcessing, progress, batch, outcome, shownBefore, fitVars,
                   scale, isDrawing, drawStart, currentRect, dragState, nextId>>
    /\ UNCHANGED sideVars

\* part_002 83-88
HandleImageClear ==
    /\ image # Null
    /\ image' = Null
    /\ textAreas' = <<>>
    /\ selectedAreaId' = NoId
    /\ generatedImages' = <<>>
    /\ UNCHANGED <<names, isProcessing, progress, batch, outcome, shownBefore, fitVars,
                   scale, isDrawing, drawStart, currentRect, dragState, nextId>>
    /\ UNCHANGED sideVars

\* ImageCanvas commits a changed list through onTextAreasChange = setTextAreas
\* (part_002 195); the canvas exists only while there is an image
OnTextAreasChange ==
    /\ image # Null
    /\ \E areas \in AreaLists : areas # textAreas /\ textAreas' = areas
    /\ UNCHANGED <<appVars, fitVars, canvasVars>>
    /\ UNCHANGED sideVars

\* NamesInput.handleAddName and handleClearAll through onNamesChange = setNames
\* (part_002 214)
OnNamesChange ==
    /\ \/ \E n \in TypedNames : Len(names) < MaxNames /\ names' = Append(names, n)
       \/ names # <<>> /\ names' = <<>>
    /\ UNCHANGED <<image, generatedImages, isProcessing, progress, batch, outcome,
                   shownBefore, textAreas, fitVars, canvasVars>>
    /\ UNCHANGED sideVars

\* App mounts with the names of the persisted state (part_002 41-50), which
\* is whatever JSON the storage key holds
Init ==
    /\ InitSurface
    /\ InitCanvas
    /\ InitSide
    /\ image = Null
    /\ textAreas = <<>>
    /\ names \in NameLists
    /\ generatedImages = <<>>
    /\ isProcessing = FALSE
    /\ progress = [current |-> 0, total |-> 0]
    /\ batch = NoBatch
    /\ outcome = "none"
    /\ shownBefore = <<>>

Next ==
    \/ HandleGenerate
    \/ LoadImageSettles
    \/ CanvasToBlobSettles
    \/ HandleImageUpload
    \/ HandleImageClear
    \/ OnTextAreasChange
    \/ OnNamesChange

Spec == Init /\ [][Next]_vars

\* the image decode and every blob encoding settle: the promise of loadImage
\* and that of canvasToBlob are not left pending for ever
SpecSettle ==
    Init /\ [][Next]_vars /\ WF_vars(LoadImageSettles) /\ WF_vars(CanvasToBlobSettles)

(***************************************************************************)
(* The persisted state, hooks/usePersistedState.ts 25-46, and the two       *)
(* auto-save effects of App, unnamed/part_002 53-72.  The item under        *)
(* STORAGE_KEY is absent, or text that JSON.parse rejects, or the JSON text *)
(* of a PersistedState; a field the object does not have is None.           *)
(***************************************************************************)
\* JSON.stringify of a PersistedState and JSON.parse of an item
Stringify(state) == [kind |-> "json", value |-> state]
Parse(item) == item.value

\* loadPersistedState, lines 25-35: null for no item and for a parse error
LoadPersistedState ==
    IF storage.kind = "json" THEN Parse(storage) ELSE None

\* loadPersistedState() || { names: [] }
CurrentState ==
    IF LoadPersistedState = None THEN [names |-> <<>>, lastTextStyle |-> None]
    ELSE LoadPersistedState

\* an object that holds the written field alone
OnlyField(state, field, value) ==
    [[names |-> <<>>, lastTextStyle |-> None] EXCEPT ![field] = value]

\* { ...currentState, [field]: value }
WithField(state, field, value) == [state EXCEPT ![field] = value]

\* the body of an auto-save effect: read, modify, write.  setItem throws when
\* the storage refuses the write, and savePersistedState (lines 40-46) only
\* logs that
AutoSave(field, value) ==
    \E written \in BOOLEAN :
        IF written
        THEN /\ storage' = Stringify(WithField(CurrentState, field, value))
             /\ lastWritten' = [lastWritten EXCEPT
                                   ![field] = [written |-> TRUE, value |-> value]]
        ELSE UNCHANGED <<storage, lastWritten>>

\* the effect of part_002 63-72 after a render with text areas areas
AutoSaveLastTextStyle(areas) ==
    IF Len(areas) > 0 THEN AutoSave("lastTextStyle", areas[Len(areas)].style)
    ELSE UNCHANGED <<storage, lastWritten>>

\* defaultTextStyle || DEFAULT_TEXT_STYLE (ImageCanvas.tsx 365), where
\* defaultTextStyle is initialState?.lastTextStyle (part_002 198)
DefaultTextStyleProp ==
    IF LoadPersistedState # None /\ LoadPersistedState.lastTextStyle # None
    THEN LoadPersistedState.lastTextStyle
    ELSE DEFAULT_TEXT_STYLE

\* what the storage holds when App mounts
OtherStyle == [DEFAULT_TEXT_STYLE EXCEPT !.fontFamily = "Georgia", !.lineHeight = 10]
StoredItems ==
    {[kind |-> "absent", value |-> None],
     [kind |-> "corrupt", value |-> None],
     Stringify([names |-> <<>>, lastTextStyle |-> None]),
     Stringify([names |-> <<<<"B">>>>, lastTextStyle |-> OtherStyle])}

\* the style updates TextStylePanel hands to onStyleChange
StyleUpdates ==
    {[fontWeight |-> "bold"], [color |-> "#ff0000"],
     [letterSpacing |-> 2, textDecoration |-> "underline"]}

\* { ...area.style, ...styleUpdates }
Merged(style, styleUpdates) ==
    [f \in DOMAIN style |-> IF f \in DOMAIN styleUpdates THEN styleUpdates[f] ELSE style[f]]

\* a style change that reaches every area whose style equals the addressed
\* area's, as it would with one style object shared between them
StyleChangedWhereShared(areas, areaId, styleUpdates) ==
    LET addressed == {areas[i].style : i \in {j \in 1..Len(areas) : areas[j].id = areaId}}
    IN  [i \in 1..Len(areas) |->
            IF areas[i].style \in addressed
            THEN [areas[i] EXCEPT !.style = Merged(areas[i].style, styleUpdates)]
            ELSE areas[i]]

\* the map of part_002 91-97
StyleChanged(areas, areaId, styleUpdates) ==
    [i \in 1..Len(areas) |->
        IF areas[i].id = areaId
        THEN [areas[i] EXCEPT !.style = Merged(areas[i].style, styleUpdates)]
        ELSE areas[i]]

\* areas.filter((area) => area.id !== areaId), part_002 101
WithoutArea(areas, areaId) ==
    LET F[i \in 0..Len(areas)] ==
            IF i = 0 THEN <<>>
            ELSE IF areas[i].id # areaId THEN Append(F[i - 1], areas[i]) ELSE F[i - 1]
    IN  F[Len(areas)]

\* NamesInput hands a changed list to setNames; the effect of part_002 54-60
\* saves it
SetNames ==
    /\ \/ \E n \in TypedNames : Len(names) < MaxNames /\ names' = Append(names, n)
       \/ names # <<>> /\ names' = <<>>
    /\ AutoSave("names", names')
    /\ UNCHANGED <<image, generatedImages, isProcessing, progress, batch, outcome,
                   shownBefore, textAreas, fitVars, canvasVars, fontVars, googleVars, panelVars>>

\* handleMouseUp with a candidate that passes the test of line 358
\* (ImageCanvas.tsx 359-368), and the effect of part_002 63-72
CommitArea ==
    /\ Len(textAreas) < MaxAreas
    /\ nextId < MaxIds
    /\ LET \* the areas are drawn side by side
           newArea == [id |-> nextId + 1, x |-> 50 * nextId, y |-> 0,
                       width |-> 100, height |-> 40, style |-> DefaultTextStyleProp]
       IN  /\ textAreas' = Append(textAreas, newArea)
           /\ selectedAreaId' = newArea.id
    /\ nextId' = nextId + 1
    /\ AutoSaveLastTextStyle(textAreas')
    /\ UNCHANGED <<scale, isDrawing, drawStart, currentRect, dragState>>
    /\ UNCHANGED <<appVars, fitVars, fontVars, googleVars, panelVars>>

\* handleStyleChange, part_002 90-98, called by TextStylePanel for the
\* selected area, and the effect of part_002 63-72
HandleStyleChange ==
    /\ selectedAreaId # NoId
    /\ \E styleUpdates \in StyleUpdates :
          textAreas' = StyleChanged(textAreas, selectedAreaId, styleUpdates)
    /\ AutoSaveLastTextStyle(textAreas')
    /\ UNCHANGED <<appVars, fitVars, canvasVars, fontVars, googleVars, panelVars>>

\* a click on an area selects it (ImageCanvas.tsx 223-224)
OnSelectArea ==
    /\ \E i \in 1..Len(textAreas) :
          /\ textAreas[i].id # selectedAreaId
          /\ selectedAreaId' = textAreas[i].id
    /\ UNCHANGED <<textAreas, scale, isDrawing, drawStart, currentRect, dragState, nextId>>
    /\ UNCHANGED <<appVars, fitVars, sideVars>>

\* a delete that leaves the selection as it is
HandleDeleteAreaKeepsSelection ==
    /\ selectedAreaId # NoId
    /\ textAreas' = WithoutArea(textAreas, selectedAreaId)
    /\ AutoSaveLastTextStyle(textAreas')
    /\ UNCHANGED <<selectedAreaId, scale, isDrawing, drawStart, currentRect, dragState, nextId>>
    /\ UNCHANGED <<appVars, fitVars, fontVars, googleVars, panelVars>>

\* handleDeleteArea, part_002 100-105, and the effect of part_002 63-72
HandleDeleteArea ==
    /\ selectedAreaId # NoId
    /\ textAreas' = WithoutArea(textAreas, selectedAreaId)
    /\ selectedAreaId' = NoId
    /\ AutoSaveLastTextStyle(textAreas')
    /\ UNCHANGED <<scale, isDrawing, drawStart, currentRect, dragState, nextId>>
    /\ UNCHANGED <<appVars, fitVars, fontVars, googleVars, panelVars>>

\* App mounts on a storage that holds any of StoredItems: the names are those
\* stored (part_002 41-46) and the effect of lines 54-60 has saved them
InitPersist ==
    /\ InitSurface
    /\ InitCanvas
    /\ InitRegistry
    /\ InitPanel
    /\ image = Null
    /\ textAreas = <<>>
    /\ generatedImages = <<>>
    /\ isProcessing = FALSE
    /\ progress = [current |-> 0, total |-> 0]
    /\ batch = NoBatch
    /\ outcome = "none"
    /\ shownBefore = <<>>
    /\ \E item \in StoredItems, written \in BOOLEAN :
          LET loaded == IF item.kind = "json" THEN Parse(item) ELSE None
              state  == IF loaded = None THEN [names |-> <<>>, lastTextStyle |-> None]
                        ELSE loaded
          IN /\ names = state.names
             /\ storage = IF written THEN Stringify(WithField(state, "names", state.names))
                            ELSE item
             /\ lastWritten = [names |-> IF written
                                          THEN [written |-> TRUE, value |-> state.names]
                                          ELSE NotWritten,
                               lastTextStyle |-> NotWritten]

NextPersist ==
    \/ SetNames
    \/ CommitArea
    \/ OnSelectArea
    \/ HandleStyleChange
    \/ HandleDeleteArea

SpecPersist == InitPersist /\ [][NextPersist]_vars

(***************************************************************************)
(* ImageCanvas.tsx: drawing, moving and resizing text areas with the mouse. *)
(* Mouse positions are canvas (display) pixels; areas are stored in image   *)
(* pixels.  The display scale is 1 / scale, so  v / scale  of the code is   *)
(* v * scale here and  v * scale  of the code is  v / scale; comparisons    *)
(* with scaled values are multiplied out to stay in the integers.           *)
(***************************************************************************)
HANDLE_SIZE   == 4
MIN_AREA_SIZE == 20

\* the mouse positions of the model: a grid over the canvas
CanvasXs == {0, 2, 30}
CanvasYs == {0, 20}

\* the results of the scale effect, lines 60-68: Math.min(scaleX, scaleY, 1)
CanvasScales == {1, 2}

\* lines 130-142, in key order; each handle's corner times 2 * scale
HandleKeys == <<"nw", "ne", "sw", "se", "n", "s", "e", "w">>

HandleX2(area, key) ==
    (CASE key \in {"nw", "sw", "w"} -> 2 * area.x
       [] key \in {"ne", "se", "e"} -> 2 * (area.x + area.width)
       [] OTHER                     -> 2 * area.x + area.width)
    - HANDLE_SIZE * scale

HandleY2(area, key) ==
    (CASE key \in {"nw", "ne", "n"} -> 2 * area.y
       [] key \in {"sw", "se", "s"} -> 2 * (area.y + area.height)
       [] OTHER                     -> 2 * area.y + area.height)
    - HANDLE_SIZE * scale

AreaWithId(id) ==
    LET found == {i \in 1..Len(textAreas) : textAreas[i].id = id}
    IN  IF found = {} THEN None ELSE textAreas[CHOOSE i \in found : \A j \in found : i <= j]

\* lines 175-199: the first handle of the selected area that holds the point
FindResizeHandle(x, y) ==
    IF selectedAreaId = NoId \/ AreaWithId(selectedAreaId) = None THEN Null
    ELSE LET area == AreaWithId(selectedAreaId)
             hit  == {k \in 1..Len(HandleKeys) :
                        /\ 2 * scale * x >= HandleX2(area, HandleKeys[k])
                        /\ 2 * scale * x <= HandleX2(area, HandleKeys[k]) + 2 * scale * HANDLE_SIZE
                        /\ 2 * scale * y >= HandleY2(area, HandleKeys[k])
                        /\ 2 * scale * y <= HandleY2(area, HandleKeys[k]) + 2 * scale * HANDLE_SIZE}
         IN  IF hit = {} THEN Null
             ELSE HandleKeys[CHOOSE k \in hit : \A j \in hit : k <= j]

\* lines 154-173: the last area of the list that holds the point
FindAreaAtPoint(x, y) ==
    LET hit == {i \in 1..Len(textAreas) :
                   /\ x * scale >= textAreas[i].x
                   /\ x * scale <= textAreas[i].x + textAreas[i].width
                   /\ y * scale >= textAreas[i].y
                   /\ y * scale <= textAreas[i].y + textAreas[i].height}
    IN  IF hit = {} THEN None ELSE textAreas[CHOOSE i \in hit : \A j \in hit : i >= j]

\* lines 201-248.  The pointer has one button: a press comes only when no
\* gesture is under way, every gesture ending with mouseup or mouseleave
HandleMouseDown ==
    /\ image # Null
    /\ ~isDrawing /\ ~dragState.isDragging /\ ~dragState.isResizing
    /\ \E x \in CanvasXs, y \in CanvasYs :
         LET handle      == FindResizeHandle(x, y)
             clickedArea == FindAreaAtPoint(x, y)
         IN  IF handle # Null /\ selectedAreaId # NoId /\ AreaWithId(selectedAreaId) # None
             THEN LET area == AreaWithId(selectedAreaId)
                  IN  /\ dragState' = [isDragging |-> FALSE, isResizing |-> TRUE,
                                       startX |-> x, startY |-> y,
                                       areaStartX |-> area.x, areaStartY |-> area.y,
                                       areaStartWidth |-> area.width,
                                       areaStartHeight |-> area.height,
                                       resizeHandle |-> handle]
                      /\ UNCHANGED <<selectedAreaId, isDrawing, drawStart, currentRect>>
             ELSE IF clickedArea # None
             THEN /\ selectedAreaId' = clickedArea.id
                  /\ dragState' = [isDragging |-> TRUE, isResizing |-> FALSE,
                                   startX |-> x, startY |-> y,
                                   areaStartX |-> clickedArea.x, areaStartY |-> clickedArea.y,
                                   areaStartWidth |-> clickedArea.width,
                                   areaStartHeight |-> clickedArea.height,
                                   resizeHandle |-> Null]
                  /\ UNCHANGED <<isDrawing, drawStart, currentRect>>
             ELSE /\ selectedAreaId' = NoId
                  /\ isDrawing' = TRUE
                  /\ drawStart' = [x |-> x, y |-> y]
                  /\ currentRect' = [x |-> x, y |-> y, width |-> 0, height |-> 0]
                  /\ UNCHANGED dragState
    /\ UNCHANGED <<textAreas, scale, nextId, appVars, fitVars>>
    /\ UNCHANGED sideVars

HasHandle(handle, side) ==
    \/ handle = side
    \/ side = "w" /\ handle \in {"nw", "sw"}
    \/ side = "n" /\ handle \in {"nw", "ne"}
    \/ side = "e" /\ handle \in {"ne", "se"}
    \/ side = "s" /\ handle \in {"sw", "se"}

\* a resize that does not enforce the minimum size
ResizedNoMinimum(area, d, deltaX, deltaY) ==
    LET h == d.resizeHandle
    IN  [area EXCEPT
           !.x      = IF HasHandle(h, "w") THEN d.areaStartX + deltaX ELSE d.areaStartX,
           !.y      = IF HasHandle(h, "n") THEN d.areaStartY + deltaY ELSE d.areaStartY,
           !.width  = CASE HasHandle(h, "w") -> d.areaStartWidth - deltaX
                        [] HasHandle(h, "e") -> d.areaStartWidth + deltaX
                        [] OTHER             -> d.areaStartWidth,
           !.height = CASE HasHandle(h, "n") -> d.areaStartHeight - deltaY
                        [] HasHandle(h, "s") -> d.areaStartHeight + deltaY
                        [] OTHER             -> d.areaStartHeight]

\* a resize whose minimum size leaves the left and top edges where the
\* pointer took them
ResizedEdgeFollowsPointer(area, d, deltaX, deltaY) ==
    LET r == ResizedNoMinimum(area, d, deltaX, deltaY)
    IN  [r EXCEPT !.width  = IF r.width < MIN_AREA_SIZE THEN MIN_AREA_SIZE ELSE r.width,
                  !.height = IF r.height < MIN_AREA_SIZE THEN MIN_AREA_SIZE ELSE r.height]

\* lines 262-318: the selected area under drag state d and the mouse deltas
Resized(area, d, deltaX, deltaY) ==
    LET h         == d.resizeHandle
        \* the switch of lines 267-302
        newX      == IF HasHandle(h, "w") THEN d.areaStartX + deltaX ELSE d.areaStartX
        newY      == IF HasHandle(h, "n") THEN d.areaStartY + deltaY ELSE d.areaStartY
        newWidth  == CASE HasHandle(h, "w") -> d.areaStartWidth - deltaX
                       [] HasHandle(h, "e") -> d.areaStartWidth + deltaX
                       [] OTHER             -> d.areaStartWidth
        newHeight == CASE HasHandle(h, "n") -> d.areaStartHeight - deltaY
                       [] HasHandle(h, "s") -> d.areaStartHeight + deltaY
                       [] OTHER             -> d.areaStartHeight
    IN  \* lines 304-318
        [area EXCEPT
           !.x      = IF newWidth < MIN_AREA_SIZE /\ HasHandle(h, "w")
                      THEN d.areaStartX + d.areaStartWidth - MIN_AREA_SIZE ELSE newX,
           !.y      = IF newHeight < MIN_AREA_SIZE /\ HasHandle(h, "n")
                      THEN d.areaStartY + d.areaStartHeight - MIN_AREA_SIZE ELSE newY,
           !.width  = IF newWidth < MIN_AREA_SIZE THEN MIN_AREA_SIZE ELSE newWidth,
           !.height = IF newHeight < MIN_AREA_SIZE THEN MIN_AREA_SIZE ELSE newHeight]

\* lines 332-336
Moved(area, d, deltaX, deltaY) ==
    [area EXCEPT !.x = Max(0, d.areaStartX + deltaX),
                 !.y = Max(0, d.areaStartY + deltaY)]

\* repeated moves and resizes can grow an area without limit; the model
\* follows them up to MaxSpan
WithinSpan(areas) ==
    \A i \in 1..Len(areas) : areas[i].width <= MaxSpan /\ areas[i].height <= MaxSpan

\* lines 250-354
HandleMouseMove ==
    /\ image # Null
    /\ \E x \in CanvasXs, y \in CanvasYs :
         LET deltaX == (x - dragState.startX) * scale
             deltaY == (y - dragState.startY) * scale
         IN  IF dragState.isResizing /\ selectedAreaId # NoId
             THEN /\ textAreas' = [i \in 1..Len(textAreas) |->
                                     IF textAreas[i].id # selectedAreaId THEN textAreas[i]
                                     ELSE Resized(textAreas[i], dragState, deltaX, deltaY)]
                  /\ UNCHANGED currentRect
             ELSE IF dragState.isDragging /\ selectedAreaId # NoId
             THEN /\ textAreas' = [i \in 1..Len(textAreas) |->
                                     IF textAreas[i].id # selectedAreaId THEN textAreas[i]
                                     ELSE Moved(textAreas[i], dragState, deltaX, deltaY)]
                  /\ UNCHANGED currentRect
             ELSE IF isDrawing /\ drawStart # None
             THEN LET width  == x - drawStart.x
                      height == y - drawStart.y
                  IN  /\ currentRect' =
                             [x      |-> IF width > 0 THEN drawStart.x ELSE x,
                              y      |-> IF height > 0 THEN drawStart.y ELSE y,
                              width  |-> IF width >= 0 THEN width ELSE -width,
                              height |-> IF height >= 0 THEN height ELSE -height]
                      /\ UNCHANGED textAreas
             ELSE UNCHANGED <<textAreas, currentRect>>
    /\ WithinSpan(textAreas')
    /\ UNCHANGED <<selectedAreaId, scale, isDrawing, drawStart, dragState, nextId,
                   appVars, fitVars>>
    /\ UNCHANGED sideVars

\* the test of line 358 on the candidate rectangle
Commits(rect) ==
    /\ rect.width >= MIN_AREA_SIZE
    /\ rect.height >= MIN_AREA_SIZE

\* lines 356-385; also the handler of onMouseLeave (line 437)
HandleMouseUp ==
    /\ IF isDrawing /\ currentRect # None /\ Commits(currentRect)
       THEN /\ Len(textAreas) < MaxDrawn
            /\ nextId < MaxIds
            /\ LET newArea == [id     |-> nextId + 1,
                               x      |-> currentRect.x * scale,
                               y      |-> currentRect.y * scale,
                               width  |-> currentRect.width * scale,
                               height |-> currentRect.height * scale,
                               style  |-> DefaultTextStyleProp]
               IN  /\ textAreas' = Append(textAreas, newArea)
                   /\ selectedAreaId' = newArea.id
            /\ nextId' = nextId + 1
       ELSE UNCHANGED <<textAreas, selectedAreaId, nextId>>
    /\ isDrawing' = FALSE
    /\ drawStart' = None
    /\ currentRect' = None
    /\ dragState' = NoDrag
    /\ UNCHANGED <<scale, appVars, fitVars>>
    /\ UNCHANGED sideVars

\* App.handleImageUpload (part_002 76-81) and the scale effect it triggers
\* (ImageCanvas.tsx 60-68).  The canvas reads nothing of the image but its
\* size, which decides the scale: one image stands for all
UploadImage ==
    /\ image' = "img1"
    /\ \E k \in CanvasScales : scale' = k
    /\ textAreas' = <<>>
    /\ selectedAreaId' = NoId
    /\ generatedImages' = <<>>
    /\ UNCHANGED <<names, isProcessing, progress, batch, outcome, shownBefore, fitVars,
                   isDrawing, drawStart, currentRect, dragState, nextId>>
    /\ UNCHANGED sideVars

InitCanvasSpec ==
    /\ InitSurface
    /\ InitApp
    /\ InitCanvas
    /\ InitSide

NextCanvas ==
    \/ UploadImage
    \/ HandleImageClear
    \/ HandleMouseDown
    \/ HandleMouseMove
    \/ HandleMouseUp
    \/ HandleDeleteArea

SpecCanvas == InitCanvasSpec /\ [][NextCanvas]_vars

(***************************************************************************)
(* Custom fonts: registerCustomFont and unregisterCustomFont (fontUtils.ts  *)
(* 6-26), their callers handleFontChange and handleRemoveFont               *)
(* (TextStylePanel.tsx 331-350) and App's handleFontUpload and              *)
(* handleFontRemove (unnamed/part_002 107-113).  A file name is the pair of *)
(* its stem and its extension; a family name is a tuple of the parts that   *)
(* are left of the file name.                                               *)
(***************************************************************************)
FontExtensions == {"ttf", "TTF", "otf", "OTF", "woff", "WOFF", "woff2", "WOFF2"}

\* file.name.replace(/\.(ttf|otf|woff|woff2)$/i, ''), line 7
FontName(fileName) ==
    IF fileName[2] \in FontExtensions THEN <<fileName[1]>> ELSE fileName

\* the files the user picks, and the width of the test string of
\* isFontAvailable at 72px in the face each file holds
FontFiles == {<<"Foo", "ttf">>, <<"Foo", "OTF">>, <<"Bar", "woff">>}
ProbeWidth(fileName) ==
    CASE fileName = <<"Foo", "ttf">> -> 700
      [] fileName = <<"Foo", "OTF">> -> 720
      [] OTHER                       -> 650
MonospaceWidth == 600

\* isFontAvailable, lines 276-290: the width in 'fontFamily, monospace' is
\* that of the face of that family added last, or the monospace width when
\* document.fonts holds no face of the family
IsFontAvailable(fontFamily) ==
    LET faces     == {f \in documentFonts : f.family = fontFamily}
        baseWidth == MonospaceWidth
        testWidth == IF faces = {} THEN MonospaceWidth
                     ELSE ProbeWidth((CHOOSE f \in faces : \A g \in faces : g.face <= f.face).file)
    IN  baseWidth # testWidth

\* handleFontChange up to the first await of registerCustomFont: lines 331-337
\* and fontUtils.ts 6-8
HandleFontChange ==
    /\ Len(registrations) < MaxUploads
    /\ \E file \in FontFiles :
          registrations' = Append(registrations, [file |-> file, pc |-> "arrayBuffer"])
    /\ UNCHANGED <<documentFonts, customFonts, alerts, removed>>
    /\ UNCHANGED <<fitVars, appVars, textAreas, canvasVars, persistVars, googleVars, panelVars>>

\* await file.arrayBuffer() settles (line 8): lines 10-11 make the FontFace
\* and ask for its load, or the call rejects and handleFontChange alerts
ArrayBufferSettles ==
    /\ \E k \in 1..Len(registrations) :
          /\ registrations[k].pc = "arrayBuffer"
          /\ \/ /\ registrations' = [registrations EXCEPT ![k].pc = "load"]
                /\ UNCHANGED alerts
             \/ /\ registrations' = [registrations EXCEPT ![k].pc = "rejected"]
                /\ alerts' = alerts + 1
    /\ UNCHANGED <<documentFonts, customFonts, removed>>
    /\ UNCHANGED <<fitVars, appVars, textAreas, canvasVars, persistVars, googleVars, panelVars>>

\* a registration that adds the face to document.fonts before it is loaded
FontFaceLoadSettlesFaceAddedFirst ==
    /\ \E k \in 1..Len(registrations) :
          LET file == registrations[k].file
              face == [face |-> k, family |-> FontName(file), file |-> file]
          IN  /\ registrations[k].pc = "load"
              /\ documentFonts' = documentFonts \cup {face}
              /\ \/ /\ customFonts' = Append(customFonts,
                                               [name |-> FontName(file), file |-> file,
                                                fontFace |-> k])
                    /\ removed' = removed \ {FontName(file)}
                    /\ registrations' = [registrations EXCEPT ![k].pc = "resolved"]
                    /\ UNCHANGED alerts
                 \/ /\ registrations' = [registrations EXCEPT ![k].pc = "rejected"]
                    /\ alerts' = alerts + 1
                    /\ UNCHANGED <<customFonts, removed>>
    /\ UNCHANGED <<fitVars, appVars, textAreas, canvasVars, persistVars, googleVars, panelVars>>

\* await fontFace.load() settles (line 11).  Loaded: lines 12-18 add the
\* face and return, and handleFontChange hands the font to App's
\* handleFontUpload (part_002 107-109).  Not loaded: the call rejects and
\* handleFontChange alerts (TextStylePanel.tsx 339-342)
FontFaceLoadSettles ==
    /\ \E k \in 1..Len(registrations) :
          LET file == registrations[k].file
              face == [face |-> k, family |-> FontName(file), file |-> file]
          IN  /\ registrations[k].pc = "load"
              /\ \/ /\ documentFonts' = documentFonts \cup {face}
                    /\ customFonts' = Append(customFonts,
                                               [name |-> FontName(file), file |-> file,
                                                fontFace |-> k])
                    /\ removed' = removed \ {FontName(file)}
                    /\ registrations' = [registrations EXCEPT ![k].pc = "resolved"]
                    /\ UNCHANGED alerts
                 \/ /\ registrations' = [registrations EXCEPT ![k].pc = "rejected"]
                    /\ alerts' = alerts + 1
                    /\ UNCHANGED <<documentFonts, customFonts, removed>>
    /\ UNCHANGED <<fitVars, appVars, textAreas, canvasVars, persistVars, googleVars, panelVars>>

\* fonts.filter((f) => f.name !== font.name), part_002 112
WithoutName(fonts, name) ==
    LET keep == {i \in 1..Len(fonts) : fonts[i].name # name}
        F[i \in 0..Len(fonts)] ==
            IF i = 0 THEN <<>>
            ELSE IF i \in keep THEN Append(F[i - 1], fonts[i]) ELSE F[i - 1]
    IN  F[Len(fonts)]

\* handleRemoveFont, TextStylePanel.tsx 347-350: unregisterCustomFont deletes
\* the font's own face (fontUtils.ts 24-26), handleFontRemove drops the list
\* entries of its name (part_002 111-113)
HandleRemoveFont ==
    /\ \E i \in 1..Len(customFonts) :
          LET font == customFonts[i]
          IN  /\ documentFonts' = {f \in documentFonts : f.face # font.fontFace}
              /\ customFonts' = WithoutName(customFonts, font.name)
              /\ removed' = removed \cup {font.name}
    /\ UNCHANGED <<registrations, alerts>>
    /\ UNCHANGED <<fitVars, appVars, textAreas, canvasVars, persistVars, googleVars, panelVars>>

InitFonts ==
    /\ InitSurface
    /\ InitApp
    /\ InitCanvas
    /\ InitSide

NextFonts ==
    \/ HandleFontChange
    \/ ArrayBufferSettles
    \/ FontFaceLoadSettles
    \/ HandleRemoveFont

SpecFonts == InitFonts /\ [][NextFonts]_vars

(***************************************************************************)
(* loadGoogleFont, fontUtils.ts 228-264.  links[family] is "none" while the *)
(* document has no link[data-font=family], then "pending" from appendChild  *)
(* until the element's load or error event, then "loaded" or "failed".      *)
(* document.fonts.ready and document.fonts.load are the host's: they settle *)
(* when the host says so, whatever the state of the family's stylesheet.    *)
(***************************************************************************)
\* a call that appends its link without looking for an existing one
LoadGoogleFontNoLookup ==
    /\ Len(loaders) < MaxLoads
    /\ \E fontName \in GoogleFamilies :
          /\ links' = [links EXCEPT ![fontName] = "pending"]
          /\ loaders' = Append(loaders, [family |-> fontName, pc |-> "loadPromise",
                                         created |-> TRUE])
    /\ UNCHANGED <<fontsLoadingPromise, fitVars, appVars, textAreas, canvasVars,
                   persistVars, fontVars, panelVars>>

\* the call up to its first await: lines 230-248, or 230-252 when the
\* document already has the link; created tells whether the call made and
\* appended a link element (lines 233-245)
LoadGoogleFont ==
    /\ Len(loaders) < MaxLoads
    /\ \E fontName \in GoogleFamilies :
          IF links[fontName] = "none"
          THEN /\ links' = [links EXCEPT ![fontName] = "pending"]
               /\ loaders' = Append(loaders, [family |-> fontName, pc |-> "loadPromise",
                                              created |-> TRUE])
          ELSE /\ loaders' = Append(loaders, [family |-> fontName, pc |-> "ready",
                                              created |-> FALSE])
               /\ UNCHANGED links
    /\ UNCHANGED <<fontsLoadingPromise, fitVars, appVars, textAreas, canvasVars,
                   persistVars, fontVars, panelVars>>

\* allGoogleFonts (GeneratedImages.tsx 173-175), cut down to the families of
\* the model
AllGoogleFonts == <<"Roboto", "Lato">>

\* allGoogleFonts.map(font => loadGoogleFont(font)...): every call runs up to
\* its first await before the next is made; g holds links and loaders
RECURSIVE MapLoadGoogleFont(_, _)
MapLoadGoogleFont(g, fonts) ==
    IF fonts = <<>> THEN g
    ELSE IF g.links[Head(fonts)] = "none"
    THEN MapLoadGoogleFont(
            [links   |-> [g.links EXCEPT ![Head(fonts)] = "pending"],
             loaders |-> Append(g.loaders, [family |-> Head(fonts), pc |-> "loadPromise",
                                            created |-> TRUE])],
            Tail(fonts))
    ELSE MapLoadGoogleFont(
            [links   |-> g.links,
             loaders |-> Append(g.loaders, [family |-> Head(fonts), pc |-> "ready",
                                            created |-> FALSE])],
            Tail(fonts))

\* loadAllGoogleFonts, GeneratedImages.tsx 176-188: the first call makes the
\* promise, every later call returns it
LoadAllGoogleFonts ==
    /\ IF fontsLoadingPromise
       THEN UNCHANGED <<links, loaders>>
       ELSE /\ Len(loaders) + Len(AllGoogleFonts) <= MaxLoads
            /\ \E g \in {MapLoadGoogleFont([links |-> links, loaders |-> loaders],
                                            AllGoogleFonts)} :
                  /\ links' = g.links
                  /\ loaders' = g.loaders
    /\ fontsLoadingPromise' = TRUE
    /\ UNCHANGED <<fitVars, appVars, textAreas, canvasVars, persistVars, fontVars, panelVars>>

\* the link's load or error event (lines 241-242) settles loadPromise for the
\* call that awaits it (line 248): on to line 252, or the call rejects
StylesheetSettles ==
    /\ \E fontName \in GoogleFamilies, event \in {"load", "error"} :
          /\ links[fontName] = "pending"
          /\ links' = [links EXCEPT ![fontName] = IF event = "load" THEN "loaded" ELSE "failed"]
          /\ loaders' = [k \in 1..Len(loaders) |->
                            IF loaders[k].family = fontName /\ loaders[k].pc = "loadPromise"
                            THEN [loaders[k] EXCEPT !.pc = IF event = "load" THEN "ready"
                                                          ELSE "rejected"]
                            ELSE loaders[k]]
    /\ UNCHANGED <<fontsLoadingPromise, fitVars, appVars, textAreas, canvasVars,
                   persistVars, fontVars, panelVars>>

\* await document.fonts.ready settles (line 252); lines 256-263 ask for the
\* two weights
FontsReadySettles ==
    /\ \E k \in 1..Len(loaders) :
          /\ loaders[k].pc = "ready"
          /\ loaders' = [loaders EXCEPT ![k].pc = "fontsLoad"]
    /\ UNCHANGED <<links, fontsLoadingPromise>>
    /\ UNCHANGED <<fitVars, appVars, textAreas, canvasVars, persistVars, fontVars, panelVars>>

\* await Promise.all(loadPromises) settles (line 263), every rejection caught
\* at line 258: the call resolves
FontsLoadSettles ==
    /\ \E k \in 1..Len(loaders) :
          /\ loaders[k].pc = "fontsLoad"
          /\ loaders' = [loaders EXCEPT ![k].pc = "resolved"]
    /\ UNCHANGED <<links, fontsLoadingPromise>>
    /\ UNCHANGED <<fitVars, appVars, textAreas, canvasVars, persistVars, fontVars, panelVars>>

InitGoogle ==
    /\ InitSurface
    /\ InitApp
    /\ InitCanvas
    /\ InitSide

NextGoogle ==
    \/ LoadGoogleFont
    \/ LoadAllGoogleFonts
    \/ StylesheetSettles
    \/ FontsReadySettles
    \/ FontsLoadSettles

SpecGoogle == InitGoogle /\ [][NextGoogle]_vars

(***************************************************************************)
(* Numbers.  A coordinate and the display scale are JavaScript Numbers,     *)
(* IEEE 754 binary64 values:  /  and  *  round the exact quotient and       *)
(* product to the nearest value with a 53-bit significand, ties to the even *)
(* one.  A positive Number is the pair of its significand  m  (a natural of *)
(* exactly Precision bits) and its exponent  e , standing for  m * 2^e ;    *)
(* the pair of a value is unique, so two Numbers are equal exactly when     *)
(* their pairs are.  A natural too wide for one machine integer is a tuple  *)
(* of Limbs digits in base Limb, least significant first.  The coordinates  *)
(* met here are far from the overflow and underflow of the exponent.        *)
(***************************************************************************)
Precision == 53
LimbBits  == 14
Limb      == 2^LimbBits
Limbs     == 8

RECURSIVE BigDigits(_, _)
BigDigits(n, count) ==
    IF count = 0 THEN <<>> ELSE <<n % Limb>> \o BigDigits(n \div Limb, count - 1)

\* the big natural of a machine integer
Big(n) == BigDigits(n, Limbs)

BigZero == Big(0)

BigOdd(a) == a[1] % 2 = 1

RECURSIVE BigGeqFrom(_, _, _)
BigGeqFrom(a, b, i) ==
    IF i = 0 THEN TRUE
    ELSE IF a[i] # b[i] THEN a[i] > b[i]
    ELSE BigGeqFrom(a, b, i - 1)

BigGeq(a, b) == BigGeqFrom(a, b, Limbs)

RECURSIVE HalfFrom(_, _)
HalfFrom(a, i) ==
    IF i > Limbs THEN <<>>
    ELSE <<(a[i] \div 2) + (IF i < Limbs THEN (a[i + 1] % 2) * (Limb \div 2) ELSE 0)>>
         \o HalfFrom(a, i + 1)

\* floor(a / 2)
BigHalf(a) == HalfFrom(a, 1)

RECURSIVE PlusFrom(_, _, _, _)
PlusFrom(a, b, i, carry) ==
    IF i > Limbs THEN <<>>
    ELSE With(a[i] + b[i] + carry, LAMBDA sum :
            <<sum % Limb>> \o PlusFrom(a, b, i + 1, sum \div Limb))

BigPlus(a, b) == PlusFrom(a, b, 1, 0)

\* 2 * a + bit
BigDouble(a, bit) == PlusFrom(a, a, 1, bit)

RECURSIVE MinusFrom(_, _, _, _)
MinusFrom(a, b, i, borrow) ==
    IF i > Limbs THEN <<>>
    ELSE With(a[i] - b[i] - borrow, LAMBDA difference :
            IF difference < 0
            THEN <<difference + Limb>> \o MinusFrom(a, b, i + 1, 1)
            ELSE <<difference>> \o MinusFrom(a, b, i + 1, 0))

\* a - b, for a >= b
BigMinus(a, b) == MinusFrom(a, b, 1, 0)

\* the digit products of a * b that weigh Limb^(k-1)
RECURSIVE ColumnSum(_, _, _, _)
ColumnSum(a, b, k, i) ==
    IF i = 0 THEN 0 ELSE a[i] * b[k + 1 - i] + ColumnSum(a, b, k, i - 1)

RECURSIVE TimesFrom(_, _, _, _)
TimesFrom(a, b, k, carry) ==
    IF k > Limbs THEN <<>>
    ELSE With(ColumnSum(a, b, k, k) + carry, LAMBDA sum :
            <<sum % Limb>> \o TimesFrom(a, b, k + 1, sum \div Limb))

\* a * b, for a product of at most Limbs digits
BigTimes(a, b) == TimesFrom(a, b, 1, 0)

\* number of binary digits of the machine integer n
RECURSIVE Bits(_)
Bits(n) == IF n = 0 THEN 0 ELSE 1 + Bits(n \div 2)

RECURSIVE BitsFrom(_, _)
BitsFrom(a, i) ==
    IF i = 0 THEN 0
    ELSE IF a[i] # 0 THEN LimbBits * (i - 1) + Bits(a[i])
    ELSE BitsFrom(a, i - 1)

\* number of binary digits of a
BigBits(a) == BitsFrom(a, Limbs)

\* 2^count
BigPower(count) ==
    [i \in 1..Limbs |-> IF i = count \div LimbBits + 1 THEN 2^(count % LimbBits) ELSE 0]

\* floor(a / 2^count)
BigShifted(a, count) ==
    LET whole == count \div LimbBits
        part  == count % LimbBits
        digit(i) == IF i <= Limbs THEN a[i] ELSE 0
    IN  [i \in 1..Limbs |->
            (digit(i + whole) \div 2^part)
            + (digit(i + whole + 1) % 2^part) * 2^(LimbBits - part)]

\* the Number nearest to  (a + fraction) * 2^e , ties to even, where the
\* fraction is zero if  inexact  is false and strictly between 0 and 1 if
\* not, and  bits  is the number of binary digits of  a
RoundedFrom(a, e, inexact, bits) ==
    IF bits <= Precision
    THEN [m |-> BigTimes(a, BigPower(Precision - bits)), e |-> e - (Precision - bits)]
    ELSE LET count == bits - Precision
             kept  == BigShifted(a, count)
             rest  == BigMinus(a, BigTimes(kept, BigPower(count)))
             half  == BigPower(count - 1)
             up    == IF rest = half THEN inexact \/ BigOdd(kept)
                      ELSE BigGeq(rest, half)
             m     == IF up THEN BigPlus(kept, Big(1)) ELSE kept
         IN  IF BigBits(m) > Precision
             THEN [m |-> BigHalf(m), e |-> e + count + 1]
             ELSE [m |-> m, e |-> e + count]

Rounded(a, e, inexact) == RoundedFrom(a, e, inexact, BigBits(a))

Zero == [m |-> BigZero, e |-> 0]

\* the Number of a machine integer that is not negative
Number(n) == IF n = 0 THEN Zero ELSE Rounded(Big(n), 0, FALSE)

\* the largest digit  d + x  with  x < 2 * step  and  (d + x) * b <= r
RECURSIVE QuotientDigit(_, _, _, _)
QuotientDigit(r, b, d, step) ==
    IF step = 0 THEN d
    ELSE IF BigGeq(r, BigTimes(b, Big(d + step)))
         THEN QuotientDigit(r, b, d + step, step \div 2)
         ELSE QuotientDigit(r, b, d, step \div 2)

\* count  more digits of the quotient  q + r / b , for r < b
RECURSIVE DivideSteps(_, _, _, _)
DivideSteps(q, r, b, count) ==
    IF count = 0 THEN [q |-> q, r |-> r]
    ELSE With(BigTimes(r, Big(Limb)), LAMBDA r2 :
         With(QuotientDigit(r2, b, 0, Limb \div 2), LAMBDA d :
            DivideSteps(BigPlus(BigTimes(q, Big(Limb)), Big(d)),
                        BigMinus(r2, BigTimes(b, Big(d))), b, count - 1)))

\* digits of a quotient that hold two binary digits more than a significand
QuotientDigits == (Precision + 2) \div LimbBits + 1

\* a / b  of a Number that is not negative and a positive one
NumberDivide(a, b) ==
    IF a = Zero THEN Zero ELSE
    With(IF BigGeq(a.m, b.m)
         THEN DivideSteps(Big(1), BigMinus(a.m, b.m), b.m, QuotientDigits)
         ELSE DivideSteps(Big(0), a.m, b.m, QuotientDigits), LAMBDA d :
        Rounded(d.q, a.e - b.e - QuotientDigits * LimbBits, d.r # BigZero))

\* a * b  of two Numbers that are not negative
NumberTimes(a, b) ==
    IF a = Zero \/ b = Zero THEN Zero ELSE
    Rounded(BigTimes(a.m, b.m), a.e + b.e, FALSE)

(***************************************************************************)
(* SpecScale: one rectangle drawn on the preview, stored and shown again,   *)
(* with the coordinates and the scale held as Numbers (ImageCanvas.tsx).    *)
(* preview.scale is the scale of the code, not its inverse.                 *)
(***************************************************************************)
NumberLeq(a, b) ==
    IF a = Zero THEN TRUE
    ELSE IF b = Zero THEN FALSE
    ELSE IF a.e # b.e THEN a.e < b.e
    ELSE BigGeq(b.m, a.m)

\* Math.min
NumberMin(a, b) == IF NumberLeq(a, b) THEN a ELSE b

\* clientWidth of the container, window.innerHeight, and the image's size
ContainerWidths == {600, 800, 1200}
InnerHeights    == {900}
ImageSizes      == {[width |-> 1000, height |-> 500],
                    [width |-> 1920, height |-> 1080],
                    [width |-> 400,  height |-> 300]}

\* the rectangles the pointer can span, in display pixels
DisplayRects ==
    [x : {0, 7}, y : {10, 31}, width : {10, 20, 28}, height : {22}]

\* lines 62-66
FitScale(containerWidth, innerHeight, img) ==
    LET maxHeight == NumberTimes(Number(innerHeight),
                                 NumberDivide(Number(6), Number(10)))
        scaleX    == NumberDivide(Number(containerWidth), Number(img.width))
        scaleY    == NumberDivide(maxHeight, Number(img.height))
    IN  NumberMin(NumberMin(scaleX, scaleY), Number(1))

\* the scale effect, lines 60-68, run for a new image
ScaleEffect ==
    /\ preview.pc \in {"idle", "shown"}
    /\ \E containerWidth \in ContainerWidths, innerHeight \in InnerHeights,
          img \in ImageSizes :
          preview' = [pc    |-> "scaled",
                      scale |-> FitScale(containerWidth, innerHeight, img)]
    /\ UNCHANGED <<fitVars, appVars, textAreas, canvasVars, persistVars,
                   fontVars, googleVars, inputValue, bulkModalOpen,
                   bulkInputValue, pastes>>

\* handleMouseMove while drawing, lines 344-353: the rectangle between the
\* press and the pointer
DrawRect ==
    /\ preview.pc = "scaled"
    /\ \E rect \in DisplayRects :
          preview' = [pc |-> "drawn", scale |-> preview.scale, currentRect |-> rect]
    /\ UNCHANGED <<fitVars, appVars, textAreas, canvasVars, persistVars,
                   fontVars, googleVars, inputValue, bulkModalOpen,
                   bulkInputValue, pastes>>

\* lines 359-366
NewArea(rect, k) ==
    [x      |-> NumberDivide(Number(rect.x), k),
     y      |-> NumberDivide(Number(rect.y), k),
     width  |-> NumberDivide(Number(rect.width), k),
     height |-> NumberDivide(Number(rect.height), k)]

\* handleMouseUp, lines 356-372
StoreArea ==
    /\ preview.pc = "drawn"
    /\ IF Commits(preview.currentRect)
       THEN preview' = [pc          |-> "stored",
                        scale       |-> preview.scale,
                        currentRect |-> preview.currentRect,
                        area        |-> NewArea(preview.currentRect, preview.scale)]
       ELSE preview' = [pc |-> "scaled", scale |-> preview.scale]
    /\ UNCHANGED <<fitVars, appVars, textAreas, canvasVars, persistVars,
                   fontVars, googleVars, inputValue, bulkModalOpen,
                   bulkInputValue, pastes>>

\* a render that draws the area where it is stored
ScaledAreaUnscaled(area, k) == area

\* lines 86-92
ScaledArea(area, k) ==
    [x      |-> NumberTimes(area.x, k),
     y      |-> NumberTimes(area.y, k),
     width  |-> NumberTimes(area.width, k),
     height |-> NumberTimes(area.height, k)]

\* the render effect, lines 71-128, for the area just stored
RenderArea ==
    /\ preview.pc = "stored"
    /\ preview' = [pc          |-> "shown",
                   scale       |-> preview.scale,
                   currentRect |-> preview.currentRect,
                   area        |-> preview.area,
                   scaledArea  |-> ScaledArea(preview.area, preview.scale)]
    /\ UNCHANGED <<fitVars, appVars, textAreas, canvasVars, persistVars,
                   fontVars, googleVars, inputValue, bulkModalOpen,
                   bulkInputValue, pastes>>

InitScale ==
    /\ InitSurface
    /\ InitApp
    /\ InitCanvas
    /\ InitSide

NextScale ==
    \/ ScaleEffect
    \/ DrawRect
    \/ StoreArea
    \/ RenderArea

SpecScale == InitScale /\ [][NextScale]_vars

(***************************************************************************)
(* NamesInput.tsx: the names list edited through the text field, the        *)
(* clipboard and the bulk dialog.  onNamesChange is App's setNames          *)
(* (part_002 214).  The bulk dialog is modal: while it is open the controls *)
(* behind it take no input.                                                 *)
(***************************************************************************)
MaxInputLen == 2    \* longest text typed into the text field
MaxBulkLen  == 3    \* longest text typed into the bulk dialog or pasted
MaxPastes   == 1    \* most clipboard reads in flight

\* the text field holds one line; the dialog and the clipboard hold lines
TypedChars == {"A", " "}
BulkChars  == {"A", " ", "\n"}
TypedTexts == SeqsUpTo(TypedChars, MaxInputLen)
BulkTexts  == SeqsUpTo(BulkChars, MaxBulkLen)

\* the class [\n\r]
IsLineBreak(c) == c \in {"\n", "\r"}

\* t.split(/[\n\r]+/), with  current  the piece being read and  inBreak
\* whether the last character read was a line break
RECURSIVE SplitRest(_, _, _)
SplitRest(t, current, inBreak) ==
    IF t = <<>> THEN <<current>>
    ELSE IF IsLineBreak(Head(t))
    THEN IF inBreak THEN SplitRest(Tail(t), <<>>, TRUE)
         ELSE <<current>> \o SplitRest(Tail(t), <<>>, TRUE)
    ELSE SplitRest(Tail(t), Append(current, Head(t)), FALSE)

SplitLines(t) == SplitRest(t, <<>>, FALSE)

NonEmpty(name) == Len(name) > 0

\* a parse that drops no piece
ParseNamesKeepsBlank(t) ==
    [i \in 1..Len(SplitLines(t)) |-> Trim(SplitLines(t)[i])]

\* lines 56-59 and 79-82: split, trim each piece, drop the empty ones
ParseNames(t) ==
    SelectSeq([i \in 1..Len(SplitLines(t)) |-> Trim(SplitLines(t)[i])], NonEmpty)

\* list.join('\n')
RECURSIVE JoinLines(_)
JoinLines(list) ==
    IF list = <<>> THEN <<>>
    ELSE IF Len(list) = 1 THEN list[1]
    ELSE list[1] \o <<"\n">> \o JoinLines(Tail(list))

namesInputOthers == <<fitVars, image, generatedImages, isProcessing, progress, batch,
                      outcome, shownBefore, textAreas, canvasVars, persistVars,
                      fontVars, googleVars, preview>>

\* onChange of the text field, line 107
SetInputValue ==
    /\ ~bulkModalOpen
    /\ \E text \in TypedTexts : inputValue' = text
    /\ UNCHANGED <<names, bulkModalOpen, bulkInputValue, pastes>>
    /\ UNCHANGED namesInputOthers

\* lines 28-33, also reached through handleKeyPress (35-40)
HandleAddName ==
    /\ ~bulkModalOpen
    /\ IF Trim(inputValue) # <<>>
       THEN /\ Len(names) < MaxNames
            /\ names' = Append(names, Trim(inputValue))
            /\ inputValue' = <<>>
       ELSE UNCHANGED <<names, inputValue>>
    /\ UNCHANGED <<bulkModalOpen, bulkInputValue, pastes>>
    /\ UNCHANGED namesInputOthers

\* lines 42-46
HandleRemoveName ==
    /\ ~bulkModalOpen
    /\ \E index \in 1..Len(names) :
          names' = SubSeq(names, 1, index - 1) \o SubSeq(names, index + 1, Len(names))
    /\ UNCHANGED <<inputValue, bulkModalOpen, bulkInputValue, pastes>>
    /\ UNCHANGED namesInputOthers

\* lines 48-50; the button is there while the list has names (line 128)
HandleClearAll ==
    /\ ~bulkModalOpen
    /\ names # <<>>
    /\ names' = <<>>
    /\ UNCHANGED <<inputValue, bulkModalOpen, bulkInputValue, pastes>>
    /\ UNCHANGED namesInputOthers

\* handlePaste up to its await, lines 52-54: the read holds the names of
\* the render that was clicked
HandlePaste ==
    /\ ~bulkModalOpen
    /\ Len(pastes) < MaxPastes
    /\ pastes' = Append(pastes, names)
    /\ UNCHANGED <<names, inputValue, bulkModalOpen, bulkInputValue>>
    /\ UNCHANGED namesInputOthers

\* lines 55-59 for every text the clipboard can hold
PastedNames == {ParseNames(text) : text \in BulkTexts}

\* handlePaste after its await, lines 55-66: navigator.clipboard.readText()
\* gives a text or rejects
ReadTextSettles ==
    /\ pastes # <<>>
    /\ pastes' = Tail(pastes)
    /\ \/ \E pastedNames \in PastedNames :
            IF Len(pastedNames) > 0
            THEN /\ Len(Head(pastes)) + Len(pastedNames) <= MaxNames
                 /\ names' = Head(pastes) \o pastedNames
            ELSE UNCHANGED names
       \/ UNCHANGED names
    /\ UNCHANGED <<inputValue, bulkModalOpen, bulkInputValue>>
    /\ UNCHANGED namesInputOthers

\* lines 70-73
HandleOpenBulkModal ==
    /\ ~bulkModalOpen
    /\ bulkInputValue' = JoinLines(names)
    /\ bulkModalOpen' = TRUE
    /\ UNCHANGED <<names, inputValue, pastes>>
    /\ UNCHANGED namesInputOthers

\* onChange of the dialog's text field, line 180
SetBulkInputValue ==
    /\ bulkModalOpen
    /\ \E text \in BulkTexts : bulkInputValue' = text
    /\ UNCHANGED <<names, inputValue, bulkModalOpen, pastes>>
    /\ UNCHANGED namesInputOthers

\* lines 76-85
HandleApplyBulkInput ==
    /\ bulkModalOpen
    /\ Len(ParseNames(bulkInputValue)) <= MaxNames
    /\ names' = ParseNames(bulkInputValue)
    /\ bulkModalOpen' = FALSE
    /\ UNCHANGED <<inputValue, bulkInputValue, pastes>>
    /\ UNCHANGED namesInputOthers

\* lines 88-91
HandleCancelBulkInput ==
    /\ bulkModalOpen
    /\ bulkModalOpen' = FALSE
    /\ bulkInputValue' = <<>>
    /\ UNCHANGED <<names, inputValue, pastes>>
    /\ UNCHANGED namesInputOthers

\* NamesInput mounts on an empty names list
InitNames ==
    /\ InitSurface
    /\ InitApp
    /\ InitCanvas
    /\ InitSide

NextNames ==
    \/ SetInputValue
    \/ HandleAddName
    \/ HandleRemoveName
    \/ HandleClearAll
    \/ HandlePaste
    \/ ReadTextSettles
    \/ HandleOpenBulkModal
    \/ SetBulkInputValue
    \/ HandleApplyBulkInput
    \/ HandleCancelBulkInput

SpecNames == InitNames /\ [][NextNames]_vars

(***************************************************************************)
(* The font weight controls of the style panel: the Select of               *)
(* TextStylePanel.tsx 127-143, the Slider of GeneratedImages.tsx 346-353    *)
(* and the bold and italic buttons of both (TextStylePanel.tsx 58-68 and    *)
(* 151-163, GeneratedImages.tsx 225-235 and 360-372).  Each hands its       *)
(* update to App's handleStyleChange for the selected area.                 *)
(***************************************************************************)
\* the values of the Slider, and String(value) of each
SliderValues == {100, 200, 300, 400, 500, 600, 700, 800, 900}

StringOf(value) ==
    CASE value = 100 -> "100" [] value = 200 -> "200" [] value = 300 -> "300"
      [] value = 400 -> "400" [] value = 500 -> "500" [] value = 600 -> "600"
      [] value = 700 -> "700" [] value = 800 -> "800" [] value = 900 -> "900"

\* TextStyle['fontWeight'], the values of the Select's items
FontWeights == {"normal", "bold"} \cup {StringOf(value) : value \in SliderValues}

\* the characters of a font weight
Characters(weight) ==
    CASE weight = "normal" -> <<"n", "o", "r", "m", "a", "l">>
      [] weight = "bold"   -> <<"b", "o", "l", "d">>
      [] weight = "100"    -> <<"1", "0", "0">>
      [] weight = "200"    -> <<"2", "0", "0">>
      [] weight = "300"    -> <<"3", "0", "0">>
      [] weight = "400"    -> <<"4", "0", "0">>
      [] weight = "500"    -> <<"5", "0", "0">>
      [] weight = "600"    -> <<"6", "0", "0">>
      [] weight = "700"    -> <<"7", "0", "0">>
      [] weight = "800"    -> <<"8", "0", "0">>
      [] weight = "900"    -> <<"9", "0", "0">>

\* parseInt of a string without sign or white space: the number its leading
\* digits spell, NaN when it starts with none
ParseIntOrNaN(t) ==
    IF DigitsEnd(t, 1) = 1 THEN [nan |-> TRUE, value |-> 0]
    ELSE [nan |-> FALSE, value |-> ParseDigits(SubSeq(t, 1, DigitsEnd(t, 1) - 1))]

\* GeneratedImages.tsx 243-245
FontWeightValue(style) ==
    IF style.fontWeight = "normal" THEN 400
    ELSE IF style.fontWeight = "bold" THEN 700
    ELSE LET parsed == ParseIntOrNaN(Characters(style.fontWeight))
         IN  IF parsed.nan \/ parsed.value = 0 THEN 400 ELSE parsed.value

\* the selected prop of the bold button, GeneratedImages.tsx 362
SliderBoldSelected(style) == FontWeightValue(style) >= 700

\* the selected prop of the bold button, TextStylePanel.tsx 153; a
\* comparison with NaN is false
BoldSelected(style) ==
    \/ style.fontWeight = "bold"
    \/ LET parsed == ParseIntOrNaN(Characters(style.fontWeight))
       IN  ~parsed.nan /\ parsed.value >= 700

\* the style the panel shows (part_002 74, TextStylePanel.tsx 50)
SelectedStyle == AreaWithId(selectedAreaId).style

\* handleStyleChange of the panel (TextStylePanel.tsx 53-55), App's
\* handleStyleChange (part_002 90-98) and the effect of part_002 63-72
PanelStyleChange(updates) ==
    /\ selectedAreaId # NoId
    /\ AreaWithId(selectedAreaId) # None
    /\ textAreas' = StyleChanged(textAreas, selectedAreaId, updates)
    /\ AutoSaveLastTextStyle(textAreas')
    /\ UNCHANGED <<appVars, fitVars, canvasVars, fontVars, googleVars, panelVars>>

\* onChange of the Select, TextStylePanel.tsx 130
HandleWeightSelect ==
    \E weight \in FontWeights : PanelStyleChange([fontWeight |-> weight])

\* onChange of the Slider, GeneratedImages.tsx 352
HandleWeightSlider ==
    \E value \in SliderValues : PanelStyleChange([fontWeight |-> StringOf(value)])

\* TextStylePanel.tsx 58-68, GeneratedImages.tsx 225-235
FormatToggle(format) ==
    /\ selectedAreaId # NoId
    /\ AreaWithId(selectedAreaId) # None
    /\ IF format = "bold"
       THEN PanelStyleChange([fontWeight |->
                IF SelectedStyle.fontWeight = "bold" THEN "normal" ELSE "bold"])
       ELSE PanelStyleChange([fontStyle |->
                IF SelectedStyle.fontStyle = "italic" THEN "normal" ELSE "italic"])

\* a click on the bold or on the italic button
HandleFormatToggle ==
    \E format \in {"bold", "italic"} : FormatToggle(format)

InitStyle ==
    /\ InitSurface
    /\ InitApp
    /\ InitCanvas
    /\ InitSide

NextStyle ==
    \/ CommitArea
    \/ HandleWeightSelect
    \/ HandleWeightSlider
    \/ HandleFormatToggle

SpecStyle == InitStyle /\ [][NextStyle]_vars

(***************************************************************************)
(* Claims about the fit search and the paint (SpecFit).                     *)
(***************************************************************************)
\* what the last call handed to calculateOptimalFontSize
CallText   == ApplyTextTransform(call.text, call.area.style)
CallWidth  == call.area.width \div call.scaleX
CallHeight == call.area.height \div call.scaleY
CallStyle  == call.area.style

\* size s fits a w x h rectangle: the spec's fit test, written out
FitsRect(s, w, h) ==
    /\ GlyphRun(metric, CallText, s) + CallStyle.letterSpacing * 10 * (Len(CallText) - 1)
         <= (w - 4) * 10
    /\ s * CallStyle.lineHeight <= (h - 4) * 10

\* the measured width of the text does not decrease as the size grows, up to hi
WidthMonotoneUpTo(hi) ==
    \A s \in 4..(hi - 1) : GlyphRun(metric, CallText, s) <= GlyphRun(metric, CallText, s + 1)

\* C3: the returned size fits the scaled rectangle with the padding of 4 on
\* both axes, unless it is the floor value 4
C3_FitBound ==
    (calls > 0 /\ optimalSize # 4) => FitsRect(optimalSize, CallWidth, CallHeight)

C3_Witness ==
    /\ calls > 0
    /\ optimalSize > 4
    /\ metric = "optical"
    /\ Len(CallText) = MaxTextLen
    /\ CallStyle.letterSpacing # 0
    /\ ~FitsRect(optimalSize + 1, CallWidth, CallHeight)

SizeFor(w, h) == CalculateOptimalFontSize(DefaultCtx, CallText, w, h, CallStyle).size

\* rectangles compared with the call's: up to Grow pixels more or less per axis
Grow == 3
Wider(v)    == {v + d : d \in 0..Grow}
Narrower(v) == {v - d : d \in 0..Min(Grow, v)}

\* C5 as stated: a larger rectangle never gets a smaller size, and a smaller
\* rectangle never a larger size, whatever the text and style
C5_MonotoneInRectangle ==
    calls > 0 =>
        /\ \A w \in Wider(CallWidth), h \in Wider(CallHeight) : SizeFor(w, h) >= optimalSize
        /\ \A w \in Narrower(CallWidth), h \in Narrower(CallHeight) : SizeFor(w, h) <= optimalSize

\* C5 amended: the same, when the measured width of the text does not
\* decrease as the font size grows
C5_MonotoneInRectangleIfWidthMonotone ==
    (calls > 0 /\ WidthMonotoneUpTo(Max(CallHeight, CallWidth) + Grow)) =>
        /\ \A w \in Wider(CallWidth), h \in Wider(CallHeight) : SizeFor(w, h) >= optimalSize
        /\ \A w \in Narrower(CallWidth), h \in Narrower(CallHeight) : SizeFor(w, h) <= optimalSize

C5_Witness ==
    /\ calls > 0
    /\ metric = "linear"
    /\ Len(CallText) > 0
    /\ \E w \in Wider(CallWidth) : SizeFor(w, CallHeight) > optimalSize
    /\ \E h \in Narrower(CallHeight) : SizeFor(CallWidth, h) < optimalSize

\* C11: every drawTextOnCanvas call completes, for the empty string and for
\* rectangles below 4 x 4 too: each iteration of the binary search narrows
\* [low, high], and the call reaches its end
C11_DrawTextCompletes ==
    /\ <>(search.pc = "done")
    /\ [][(search.pc = "loop" /\ search'.pc = "loop") =>
             search'.high - search'.low < search.high - search.low]_vars

\* the call has completed for the empty string in a rectangle narrower than
\* 4, after the loop ran
C11_Witness ==
    /\ search.pc = "done"
    /\ call.text = <<>>
    /\ CallWidth < 4
    /\ ctx.font # ctxBefore.font
    /\ optimalSize > 4

\* the form '<int>px <int>px <uint>px <rest>' of a whole string
HasShadowForm(textShadow) == MatchAt(textShadow, 1) # None

\* the graphics state the last call would have painted with had its style
\* said textShadow 'none'
PaintedWithoutShadow ==
    DrawTextOnCanvas(ctxBefore, <<>>, call.text,
                     [call.area EXCEPT !.style.textShadow = <<"n", "o", "n", "e">>],
                     call.scaleX, call.scaleY).painting

\* C12: a textShadow that is not 'none' and has not the form
\* '<int>px <int>px <uint>px <rest>' paints as textShadow 'none' does: no
\* shadow offset, blur or colour
C12_MalformedShadowPaintsAsNone ==
    (calls > 0 /\ CallStyle.textShadow # <<"n", "o", "n", "e">>
               /\ ~HasShadowForm(CallStyle.textShadow))
        => painted = PaintedWithoutShadow

\* the characters the fillText calls of a painting put on the surface, in order
RECURSIVE FilledText(_)
FilledText(fills) ==
    IF fills = <<>> THEN <<>> ELSE Head(fills).text \o FilledText(Tail(fills))

\* position i of t begins a run of word characters: a run a..b of them that
\* no word character precedes
BeginsWordRun(t, i) ==
    \E b \in i..Len(t) :
        /\ \A k \in i..b : t[k] \in {"a", "b", "A", "B"}
        /\ i = 1 \/ t[i - 1] \notin {"a", "b", "A", "B"}

\* the string the claim says is measured and painted
TransformedAsClaimed(t, textTransform) ==
    [i \in 1..Len(t) |->
        CASE textTransform = "uppercase"  -> (CASE t[i] = "a" -> "A" [] OTHER -> t[i])
          [] textTransform = "lowercase"  -> (CASE t[i] = "B" -> "b" [] OTHER -> t[i])
          [] textTransform = "capitalize" ->
                 (CASE t[i] = "a" /\ BeginsWordRun(t, i) -> "A" [] OTHER -> t[i])
          [] OTHER                        -> t[i]]

PaintedCharWidth(i) == GlyphRun(metric, <<CallText[i]>>, optimalSize)

RECURSIVE PaintedWidthsUpTo(_)
PaintedWidthsUpTo(i) == IF i = 0 THEN 0 ELSE PaintedWidthsUpTo(i - 1) + PaintedCharWidth(i)

\* the width of the painted run: the characters' widths and the n - 1 gaps
PaintedRunWidth ==
    PaintedWidthsUpTo(Len(CallText)) + (Len(CallText) - 1) * CallStyle.letterSpacing * 10

\* the left edge of glyph i, in twentieths of a pixel: fillText centres the
\* glyph on its x
GlyphLeft(i) == painted.fills[i].x - PaintedCharWidth(i)

\* the anchor: the centre of the scaled rectangle, in twentieths of a pixel
AnchorX == 20 * (call.area.x \div call.scaleX) + 10 * CallWidth

\* C19: with a letter spacing, the n glyphs form one run of the width
\* (sum of the n widths) + (n - 1) * letterSpacing centred on the anchor: the
\* first left edge is at centre - totalWidth / 2, each next one lies a width
\* and a spacing further, the last right edge is at centre + totalWidth / 2
C19_GlyphRunCentred ==
    (calls > 0 /\ CallStyle.letterSpacing # 0 /\ Len(CallText) > 0) =>
        LET n == Len(CallText)
        IN  /\ Len(painted.fills) = n
            /\ painted.state.textAlign = "center"
            /\ \A i \in 1..n : painted.fills[i].text = <<CallText[i]>>
            /\ GlyphLeft(1) = AnchorX - PaintedRunWidth
            /\ \A i \in 1..(n - 1) :
                   GlyphLeft(i + 1) = GlyphLeft(i) + 2 * PaintedCharWidth(i)
                                      + 20 * CallStyle.letterSpacing
            /\ GlyphLeft(n) + 2 * PaintedCharWidth(n) = AnchorX + PaintedRunWidth

\* two characters of different widths painted with a negative spacing
C19_Witness ==
    /\ calls > 0
    /\ CallStyle.letterSpacing < 0
    /\ Len(CallText) = 2
    /\ PaintedCharWidth(1) # PaintedCharWidth(2)
    /\ Len(painted.fills) = 2
    /\ optimalSize > 4

\* C20: with a letter spacing and a chosen size above 4, the painted run is
\* at most scaledWidth - 4 wide
C20_PaintedRunWithinBox ==
    (calls > 0 /\ optimalSize > 4 /\ CallStyle.letterSpacing # 0 /\ Len(CallText) > 0) =>
        PaintedRunWidth <= (CallWidth - 4) * 10

\* C6: every attribute of the graphics state is, after the call, what it was
\* before the call
C6_GraphicsStateRestored ==
    calls > 0 => (ctx = ctxBefore /\ ctxStack = <<>>)



(***************************************************************************)
(* Claims about the batch generator and the App (Spec).                     *)
(***************************************************************************)
\* the value the last generateImages call resolved with
Returned == outcome = "returned"

RECURSIVE NonBlankTrimmed(_)
\* the trimmed names of a list that are not empty, in order
NonBlankTrimmed(ns) ==
    IF ns = <<>> THEN <<>>
    ELSE LET rest == NonBlankTrimmed(Tail(ns))
             t    == Trim(Head(ns))
         IN  IF t = <<>> THEN rest ELSE <<t>> \o rest

\* C1: a call that returns holds exactly one record per non-blank input name,
\* in input order, named by the trimmed name
C1_OneRecordPerNonBlankName ==
    Returned => [j \in 1..Len(batch.results) |-> batch.results[j].name]
                    = NonBlankTrimmed(batch.names)

\* C2: onProgress is called once per attempted name, blank or not: n calls,
\* the k-th with (k, n)
C2_ProgressPerAttemptedName ==
    Returned => batch.progress = [k \in 1..Len(batch.names) |-> <<k, Len(batch.names)>>]

\* C7: no non-blank name is missing from the records of a call that returns
C7_NoNonBlankNameDropped ==
    Returned =>
        \A i \in 1..Len(batch.names) :
            Trim(batch.names[i]) # <<>> =>
                \E j \in 1..Len(batch.results) : batch.results[j].name = Trim(batch.names[i])

\* C8: after a failed encoding the call has failed as a whole and nothing is
\* shown: not the records collected before the failure, not the last run's
C8_NothingShownAfterEncodingFailure ==
    outcome = "encodingFailed" => (generatedImages = <<>> /\ ~isProcessing)

C8_Witness ==
    /\ outcome = "encodingFailed"
    /\ shownBefore # <<>>
    /\ batch.results # <<>>
    /\ generatedImages = <<>>

\* C9: every generated image shown was produced from the current image
C9_ShownImagesAreOfCurrentImage ==
    \A j \in 1..Len(generatedImages) : generatedImages[j].img = image


(***************************************************************************)
(* Claims about the persisted state and the styles (SpecPersist).           *)
(***************************************************************************)
\* C16: a save of the names leaves the stored lastTextStyle as it was and a
\* save of lastTextStyle leaves the stored names as they were, and each
\* field of the stored state is what the last write of that field put there
C16_SaveChangesOnlyItsField ==
    /\ [][/\ names' # names => CurrentState'.lastTextStyle = CurrentState.lastTextStyle
          /\ textAreas' # textAreas => CurrentState'.names = CurrentState.names]_vars
    /\ [](/\ lastWritten.names.written =>
               CurrentState.names = lastWritten.names.value
          /\ lastWritten.lastTextStyle.written =>
               CurrentState.lastTextStyle = lastWritten.lastTextStyle.value)

\* names were saved after a style was, and the storage holds both
C16_Witness ==
    /\ lastWritten.names.written
    /\ lastWritten.lastTextStyle.written
    /\ names # <<>>
    /\ CurrentState.names = names
    /\ textAreas # <<>>
    /\ CurrentState.lastTextStyle = textAreas[Len(textAreas)].style
    /\ CurrentState.lastTextStyle # DEFAULT_TEXT_STYLE
    /\ CurrentState.lastTextStyle.fontWeight = "bold"

\* C17: a step that changes the style of an area changes the fields of one
\* style update in that one area, and leaves its id and geometry, and every
\* other area, as they were
C17_StyleChangeTouchesOneArea ==
    [][(Len(textAreas') = Len(textAreas) /\ textAreas' # textAreas) =>
          \E i \in 1..Len(textAreas), styleUpdates \in StyleUpdates :
              /\ textAreas[i].id = selectedAreaId
              /\ \A j \in 1..Len(textAreas) : j # i => textAreas'[j] = textAreas[j]
              /\ \A f \in {"id", "x", "y", "width", "height"} :
                     textAreas'[i][f] = textAreas[i][f]
              /\ \A f \in DOMAIN textAreas[i].style :
                     textAreas'[i].style[f] =
                        IF f \in DOMAIN styleUpdates THEN styleUpdates[f]
                        ELSE textAreas[i].style[f]]_vars

\* two areas created from the same default style, one of them changed since
C17_Witness ==
    /\ Len(textAreas) = 2
    /\ storage.kind = "json"
    /\ textAreas[1].style.fontWeight = "bold"
    /\ textAreas[2].style = [textAreas[1].style EXCEPT !.fontWeight = "normal"]
    /\ selectedAreaId = textAreas[1].id

(***************************************************************************)
(* Claims about the custom fonts (SpecFonts).                               *)
(***************************************************************************)
\* C14: a family name that has been removed, and not uploaded again since,
\* is not available: isFontAvailable answers false for it
C14_RemovedFamilyIsUnavailable ==
    \A family \in removed : ~IsFontAvailable(family)

\* C18: the step in which a registration fails shows the failure and adds
\* nothing to document.fonts or to the custom-font list, and the face of a
\* failed registration is in neither
C18_FailedRegistrationAddsNothing ==
    /\ [][\A k \in 1..Len(registrations) :
            (registrations[k].pc # "rejected" /\ registrations'[k].pc = "rejected") =>
                /\ documentFonts' = documentFonts
                /\ customFonts' = customFonts
                /\ alerts' = alerts + 1]_vars
    /\ [](\A k \in 1..Len(registrations) :
            registrations[k].pc = "rejected" =>
                /\ \A f \in documentFonts : f.face # k
                /\ \A i \in 1..Len(customFonts) : customFonts[i].fontFace # k)

\* a face failed to load after another file of the same family was registered
C18_Witness ==
    \E j, k \in 1..Len(registrations) :
        /\ j < k
        /\ registrations[j].pc = "resolved"
        /\ registrations[k].pc = "rejected"
        /\ FontName(registrations[j].file) = FontName(registrations[k].file)
        /\ Cardinality(documentFonts) = 1
        /\ Len(customFonts) = 1
        /\ alerts = 1

(***************************************************************************)
(* Claims about the Google fonts (SpecGoogle).                              *)
(***************************************************************************)
\* C15: a loadGoogleFont call that has completed, resolved or rejected, was
\* for a family whose stylesheet load has completed or failed
C15_NoCompletionBeforeStylesheet ==
    \A k \in 1..Len(loaders) :
        loaders[k].pc \in {"resolved", "rejected"} =>
            links[loaders[k].family] \in {"loaded", "failed"}

(***************************************************************************)
(* Claims about the rectangle authoring (SpecCanvas).                       *)
(***************************************************************************)
\* C10: every text area of the list is at least 20 x 20 in image pixels, and
\* a candidate rectangle below the minimum is never committed
C10_CommittedAreasHaveMinimumSize ==
    /\ [](\A i \in 1..Len(textAreas) :
            textAreas[i].width >= 20 /\ textAreas[i].height >= 20)
    /\ [][Len(textAreas') > Len(textAreas) =>
            (currentRect.width >= 20 /\ currentRect.height >= 20)]_vars

\* a resize with the w handle has been clamped at the minimum on a scaled canvas
C10_Witness ==
    /\ scale = 2
    /\ dragState.isResizing
    /\ HasHandle(dragState.resizeHandle, "w")
    /\ \E i \in 1..Len(textAreas) :
          /\ textAreas[i].id = selectedAreaId
          /\ textAreas[i].width = 20
          /\ textAreas[i].x > dragState.areaStartX
          /\ dragState.areaStartWidth > 20

(***************************************************************************)
(* Claims about the surfaces of a batch (Spec).                             *)
(***************************************************************************)
\* the canvases of the last generateImages call that gave a 2d context
Drawn == {k \in 1..Len(batch.canvases) : batch.canvases[k].state # "noContext"}

\* two rectangles that share a pixel
Overlap(a, b) ==
    /\ a.x < b.x + b.width /\ b.x < a.x + a.width
    /\ a.y < b.y + b.height /\ b.y < a.y + a.height

\* C21: on every canvas a batch has drawn on, the first operation paints the
\* source image and it is followed by one drawTextOnCanvas call per text
\* area, with the canvas's name, in list order and at scale 1; every record
\* returned comes from such a canvas
C21_ImageThenAreasInListOrder ==
    /\ \A k \in Drawn :
          LET ops == batch.canvases[k].ops
          IN  /\ Len(ops) = 1 + Len(batch.areas)
              /\ ops[1] = [op |-> "drawImage", img |-> batch.img]
              /\ \A j \in 1..Len(batch.areas) :
                    ops[j + 1] = [op |-> "drawTextOnCanvas", text |-> batch.canvases[k].name,
                                  area |-> batch.areas[j], scaleX |-> 1, scaleY |-> 1]
    /\ \A j \in 1..Len(batch.results) :
          \E k \in Drawn : /\ batch.canvases[k].state = "encoded"
                           /\ batch.canvases[k].name = batch.results[j].name

\* a batch has returned a record whose canvas got two overlapping areas, the
\* later one drawn last
C21_Witness ==
    /\ Returned
    /\ Len(batch.areas) = 2
    /\ Overlap(batch.areas[1], batch.areas[2])
    /\ batch.results # <<>>
    /\ \E k \in Drawn :
          /\ batch.canvases[k].state = "encoded"
          /\ batch.canvases[k].ops[3].area = batch.areas[2]

\* C22: no canvas is created while an earlier one is still being encoded: of
\* the canvases of a call only the last can be awaiting its blob, and only
\* while the call is suspended at that await
C22_OneSurfaceInFlight ==
    \A k \in 1..Len(batch.canvases) :
        batch.canvases[k].state = "toBlob" =>
            /\ k = Len(batch.canvases)
            /\ batch.pc = "canvasToBlob"

\* the second canvas of a batch is being encoded after the first was
C22_Witness ==
    /\ Len(batch.canvases) = 2
    /\ batch.canvases[1].state = "encoded"
    /\ batch.canvases[2].state = "toBlob"
    /\ batch.canvases[1].i < batch.canvases[2].i

(***************************************************************************)
(* Claims about the end of a batch (SpecSettle).                            *)
(***************************************************************************)
\* C26: whenever isProcessing is true it is false again later
C26_ProcessingEnds == isProcessing ~> ~isProcessing

\* a batch that failed while encoding has left isProcessing false
C26_Witness ==
    /\ outcome = "encodingFailed"
    /\ batch.results # <<>>
    /\ ~isProcessing

\* C23: of the loadGoogleFont calls made for a family, at most one created
\* a link element
C23_OneLinkPerFamily ==
    \A family \in GoogleFamilies :
        Cardinality({k \in 1..Len(loaders) :
                        loaders[k].family = family /\ loaders[k].created}) <= 1

\* loadAllGoogleFonts ran after a loadGoogleFont call whose stylesheet failed
\* and did not ask for that family's stylesheet again
C23_Witness ==
    /\ fontsLoadingPromise
    /\ Len(loaders) = 3
    /\ loaders[1].family = "Roboto" /\ loaders[1].created /\ loaders[1].pc = "rejected"
    /\ loaders[2].family = "Roboto" /\ ~loaders[2].created
    /\ loaders[3].family = "Lato" /\ loaders[3].created

(***************************************************************************)
(* Claims about the display scale (SpecScale).                              *)
(***************************************************************************)
\* the Number of each coordinate of a rectangle of whole display pixels
NumberRect(rect) ==
    [x      |-> Number(rect.x),
     y      |-> Number(rect.y),
     width  |-> Number(rect.width),
     height |-> Number(rect.height)]

\* the Number that follows a positive Number
NumberAfter(a) ==
    With(BigPlus(a.m, Big(1)), LAMBDA m :
        IF BigBits(m) > Precision THEN [m |-> BigHalf(m), e |-> a.e + 1]
        ELSE [m |-> m, e |-> a.e])

\* a and b are the same Number or two Numbers with none between them
Beside(a, b) ==
    \/ a = b
    \/ a # Zero /\ b # Zero /\ (NumberAfter(a) = b \/ NumberAfter(b) = a)

Coordinates == {"x", "y", "width", "height"}

\* C24 as stated: a rectangle drawn at display position and size r under
\* scale k is stored as r / k and the preview under the same scale shows it
\* at exactly r
C24_ShownExactlyWhereDrawn ==
    preview.pc = "shown" =>
        /\ preview.area = NewArea(preview.currentRect, preview.scale)
        /\ preview.scaledArea = NumberRect(preview.currentRect)

\* C24: a rectangle drawn at display position and size r under scale k is
\* stored as r / k, and the preview under the same scale shows each of its
\* coordinates at r or at a Number next to r, and at exactly r when the
\* scale is 1
C24_ShownBesideWhereDrawn ==
    preview.pc = "shown" =>
        /\ preview.area = NewArea(preview.currentRect, preview.scale)
        /\ \A c \in Coordinates :
              Beside(preview.scaledArea[c], Number(preview.currentRect[c]))
        /\ preview.scale = Number(1) =>
              preview.scaledArea = NumberRect(preview.currentRect)

\* a rectangle shown under a scale below 1, off the place it was drawn at
C24_Witness ==
    /\ preview.pc = "shown"
    /\ preview.scale # Number(1)
    /\ preview.scaledArea.x # Number(preview.currentRect.x)
    /\ preview.scaledArea.x # Zero

(***************************************************************************)
(* Claims about the selection (SpecCanvas).                                 *)
(***************************************************************************)
\* C25: after any sequence of draw, select, move, resize, delete-area,
\* image-upload and image-clear, selectedAreaId is null or the id of an
\* area in the list
C25_SelectionIsAnArea ==
    \/ selectedAreaId = NoId
    \/ \E i \in 1..Len(textAreas) : textAreas[i].id = selectedAreaId

\* an area drawn and selected after an earlier one has gone from the list
C25_Witness ==
    /\ selectedAreaId # NoId
    /\ nextId > 1
    /\ \E i \in 1..Len(textAreas) : textAreas[i].id = selectedAreaId
    /\ \A i \in 1..Len(textAreas) : textAreas[i].id # 1

(***************************************************************************)
(* Claims about the edges of a resized area (SpecCanvas).                   *)
(***************************************************************************)
\* the selected area is resized by this step
ResizeStep(i) ==
    /\ dragState.isResizing
    /\ Len(textAreas') = Len(textAreas)
    /\ textAreas[i].id = selectedAreaId
    /\ textAreas'[i] # textAreas[i]

\* C27: a resize moves only the edges named by the handle: the left edge
\* stays without w, the right edge x + width without e, the top edge without
\* n and the bottom edge y + height without s, also when the size is held at
\* the minimum of 20
C27_ResizeMovesOnlyNamedEdges ==
    [][\A i \in 1..Len(textAreas) : ResizeStep(i) =>
         LET before == textAreas[i]
             after  == textAreas'[i]
             h      == dragState.resizeHandle
         IN  /\ HasHandle(h, "w") \/ after.x = before.x
             /\ HasHandle(h, "e") \/ after.x + after.width = before.x + before.width
             /\ HasHandle(h, "n") \/ after.y = before.y
             /\ HasHandle(h, "s") \/ after.y + after.height = before.y + before.height]_vars

\* a resize by a handle with w, pulled past the right edge and held at the
\* minimum width with the right edge where it was
C27_Witness ==
    /\ dragState.isResizing
    /\ HasHandle(dragState.resizeHandle, "w")
    /\ dragState.areaStartWidth > MIN_AREA_SIZE
    /\ \E i \in 1..Len(textAreas) :
          /\ textAreas[i].id = selectedAreaId
          /\ textAreas[i].width = MIN_AREA_SIZE
          /\ textAreas[i].x # dragState.areaStartX
          /\ textAreas[i].x + textAreas[i].width
                = dragState.areaStartX + dragState.areaStartWidth

\* C28: after any draw, move or resize every committed area has x >= 0 and
\* y >= 0
C28_AreasStartInsideTheImage ==
    \A i \in 1..Len(textAreas) : textAreas[i].x >= 0 /\ textAreas[i].y >= 0

(***************************************************************************)
(* Claims about the names list (SpecNames).                                 *)
(***************************************************************************)
\* C29: starting from an empty list, add, paste, bulk-apply, remove and
\* clear keep every entry of names non-empty and free of white space at
\* both ends
C29_NamesNonEmptyAndTrimmed ==
    \A i \in 1..Len(names) :
        /\ names[i] # <<>>
        /\ ~IsSpace(names[i][1])
        /\ ~IsSpace(names[i][Len(names[i])])

\* a bulk text of two lines applied, and a name with a space inside added
\* from a padded line
C29_Witness ==
    /\ ~bulkModalOpen
    /\ \E k \in 1..Len(bulkInputValue) : IsLineBreak(bulkInputValue[k])
    /\ Len(names) = 2
    /\ \E i \in 1..Len(names) : Len(names[i]) < Len(SplitLines(bulkInputValue)[i])

(***************************************************************************)
(* Claims about the bold button (SpecStyle).                                *)
(***************************************************************************)
\* C30: for every font weight ('normal', 'bold', '100' to '900') one click
\* on the bold button flips the selected state the button shows (selected
\* when the weight is 'bold' or at least 700)
C30_BoldClickFlipsSelected ==
    [][FormatToggle("bold") =>
          /\ BoldSelected(SelectedStyle)' # BoldSelected(SelectedStyle)
          /\ SliderBoldSelected(SelectedStyle)' # SliderBoldSelected(SelectedStyle)]_vars

====
